---- MODULE Spec2Model ----
(***************************************************************************)
(* Verification model of xs-cbt-backup: the CBT bitmap (cbt_bitmap.py),    *)
(* the VDI downloader (vdi_downloader.py, on top of python_nbd_client.py)  *)
(* the backup orchestrator (backup.py) and the NBD purposes of the pool's   *)
(* networks (nbd_networks.py).                                             *)
(*                                                                         *)
(* Eight specifications share the module:                                  *)
(*   SpecBitmap     CbtBitmap.get_extents and get_statistics on bounded    *)
(*                  bitmaps                                                *)
(*   SpecExtents    merge_adjacent_extents and PythonWriter.write_extents  *)
(*                  (extent_writers.py) on sequences of extents            *)
(*   SpecDownload   VdiDownloader.full_vdi_backup / incremental_vdi_backup *)
(*   SpecDownloadFaulty  the same, with a connection that can fail at any  *)
(*                  block and a host where cp may be missing               *)
(*   SpecNbdExtents VdiDownloader._download_nbd_extents on sequences of    *)
(*                  extents                                                *)
(*   SpecBackup     BackupConfig.backup on a VM with snapshot chains       *)
(*   SpecNbd        PythonNbdClient: handshake, requests and replies,      *)
(*                  close                                                  *)
(*   SpecNetworks   auto_enable_nbd on a pool's networks                   *)
(***************************************************************************)
EXTENDS Integers, Sequences, FiniteSets, TLC

VARIABLES
    \* ---- interpreter ----
    pep479,         \* TRUE: StopIteration inside a generator becomes RuntimeError (Python >= 3.7)
    \* ---- cbt_bitmap.py ----
    bitmap,         \* CbtBitmap.bitmap: the decoded bytes
    bm_pc,          \* "new", or the call that was made: "plain" | "merged" for
                    \* get_extents(False) | get_extents(True) consumed to its
                    \* end, "stats" for get_statistics()
    extents,        \* outcome of list(get_extents(...)): [exc, val]
    statistics,     \* what get_statistics() returned: [size, changed_blocks_size],
                    \* both None if it was not called
    \* ---- extent_writers.py, and _merge_adjacent_extents of cbt_bitmap.py ----
    ext_pc,         \* "new", or the function that was called: "merged_cbt" |
                    \* "merged" | "written"; "off" if none is modelled
    ext_args,       \* the arguments of the function called on a sequence of
                    \* extents: [extents, block_size, output_mode]
    merged,         \* outcome of list(merge_adjacent_extents(iter(extents))): [exc, val]
    reads,          \* the calls PythonWriter made to its nbd_client.read, in
                    \* order, each <<offset, length>>
    ext_file,       \* the output file of write_extents: [exists, segs]
    ext_exc,        \* exception that left write_extents, "none" if it returned
    \* ---- vdi_downloader.py ----
    dl_op,          \* the VdiDownloader method called: "full" | "incremental",
                    \* "extents" for _download_nbd_extents itself, "off" if none
    dl_pc,          \* position inside the method
    dl_exc,         \* exception in flight or propagated to the caller, "none" if none
    export_size,    \* size of the export the NBD server announces (the VDI's virtual_size)
    block_size,     \* VdiDownloader._block_size
    dl_bitmap,      \* decoded result of VDI.list_changed_blocks(vdi_from, vdi)
    base_file,      \* latest_backup[1]: [exists, segs]
    out_file,       \* output_file: [exists, segs]
    todo,           \* extents the for loop of _download_nbd_extents has not finished
    lazy_exc,       \* exception the extents iterator raises when it is exhausted
    current_offset, \* loop variable of the inner for loop, None between extents
    output_mode,    \* _OutputMode the output file is open in, "closed" if not open
    nbd_client,     \* the PythonNbdClient: [_closed, _transmission_phase, _handle, _size, sent]
    \* ---- backup.py: the server ----
    cbt_enabled,    \* per live VDI: VDI.get_cbt_enabled
    sr_allowed_operations,
                    \* per live VDI: SR.get_allowed_operations of its SR
    prior,          \* the earlier snapshots of the live VDI whose snapshot _vdi_backup
                    \* is backing up, in the order VDI.get_snapshots lists them, each
                    \* [time, data]: snapshot_time, and whether some backup
                    \* directory holds <uuid>/data for it
    vm_snapshot,    \* "none" | "exists" | "destroyed": the VM snapshot of this backup
    snap_vdi,       \* per live VDI, its VDI in the VM snapshot:
                    \* "none" | "exists" | "data_destroyed" | "destroyed"
    snap_cbt,       \* per live VDI: cbt_enabled of that snapshot VDI
    calls,          \* destroying calls issued to the server, in order
    \* ---- backup.py: BackupConfig.backup ----
    bk_pc,          \* position inside backup()
    bk_exc,         \* exception in flight or propagated by backup(), "none" if none
    failed_step,    \* bk_pc of the step that raised, "none" if none
    vdi_i,          \* index of the current for loop over the VDIs
    latest_backup,  \* local of _vdi_backup: None or the base snapshot chosen
    vdi_status,     \* per live VDI, _vdi_backup of its snapshot VDI: "none", "started",
                    \* or the outcome of _compare_checksums, "equal" | "differ"
    bk_raised,      \* exception that left backup(), "none" while it runs or if it returned
    bdir,           \* the timestamped backup directory: [exists, files]
    vm_dir,         \* per timestamp: the directory of that name found under the
                    \* VM's directory when backup() is called, [exists, files]
    timestamp,      \* local of backup(): the name of the directory it created,
                    \* None before that
    \* ---- python_nbd_client.py: one PythonNbdClient and its peer ----
    nbd_pc,         \* "new" before PythonNbdClient(...), "open" once it returned,
                    \* "failed" if it raised, "off" if no client is modelled
    ctor_args,      \* arguments of __init__: [use_tls, new_style_handshake, connect]
    client,         \* the object's fields, with what it has sent on the socket (sent)
                    \* and the number of items sent before the TLS upgrade (tls_at)
    wire_in,        \* bytes the server has sent and the client has not received yet
    gen,            \* the generator query_block_status returned: "none", or
                    \* [state, handle] with state "created" | "suspended" | "finished"
    outstanding,    \* handles of the requests sent by a call that has returned
                    \* before their reply was received to its end: those of
                    \* query_block_status, until the generator has yielded the
                    \* final chunk or has raised
    last_call,      \* the last call on the client: arguments, outcome and the
                    \* client as it was before the call
    ops_done,       \* number of calls made on the constructed client
    \* ---- nbd_networks.py: auto_enable_nbd and the pool's networks ----
    net_pc,         \* position inside auto_enable_nbd: "scan" (first loop),
                    \* "enable" (second loop), "wait", "returned", "off"
    net_args,       \* [use_tls, skip_vlans]
    net_i,          \* index of the current for loop over networks
    purpose,        \* per network: network.get_purpose, a set of strings
    vlan_master,    \* per network: one of its PIFs is the master of a VLAN
    purpose_at_call \* purpose as it was when auto_enable_nbd was called

bitmapVars == <<bitmap, bm_pc, extents, statistics>>

extVars == <<ext_pc, ext_args, merged, reads, ext_file, ext_exc>>

downloadVars == <<dl_op, dl_pc, dl_exc, export_size, block_size, dl_bitmap,
                  base_file, out_file, todo, lazy_exc, current_offset,
                  output_mode, nbd_client>>

serverVars == <<cbt_enabled, sr_allowed_operations, prior, vm_snapshot, snap_vdi, snap_cbt, calls>>

backupVars == <<bk_pc, bk_exc, failed_step, vdi_i, latest_backup, vdi_status,
                bk_raised, bdir, vm_dir, timestamp>>

nbdVars == <<nbd_pc, ctor_args, client, wire_in, gen, outstanding, last_call,
             ops_done>>

netVars == <<net_pc, net_args, net_i, purpose, vlan_master, purpose_at_call>>

vars == <<pep479, bitmapVars, extVars, downloadVars, serverVars, backupVars, nbdVars,
          netVars>>

\* ---------------------------------------------------------------------------
\* Bounds and input sets
\* ---------------------------------------------------------------------------
MaxBitmapBytes == 2

\* bytes a bitmap is drawn from: all-clear, last bit, first bit, the run
\* 0b10110000, alternating runs 0b01011010, a run of two at the end, all-set
ByteVals == {0, 1, 128, 176, 90, 3, 255}

RECURSIVE SeqsUpTo(_, _)
SeqsUpTo(S, n) ==
    IF n = 0 THEN {<<>>}
    ELSE LET shorter == SeqsUpTo(S, n - 1)
         IN  shorter \cup {Append(s, x) : s \in {t \in shorter : Len(t) = n - 1}, x \in S}

Bitmaps == SeqsUpTo(ByteVals, MaxBitmapBytes)

\* ---------------------------------------------------------------------------
\* Python values
\* ---------------------------------------------------------------------------
None == -1

Ok(v) == [exc |-> "none", val |-> v]
Raise(e, v) == [exc |-> e, val |-> v]

\* ---------------------------------------------------------------------------
\* cbt_bitmap.py
\* ---------------------------------------------------------------------------
BLOCK_SIZE == 64 * 1024

RECURSIVE Pow2(_)
Pow2(n) == IF n = 0 THEN 1 ELSE 2 * Pow2(n - 1)

\* len(BitArray(bytes))
BitLen(cbt_bitmap) == 8 * Len(cbt_bitmap)

\* BitArray(bytes)[i]: bit i of the byte string, most significant bit first
BitAt(cbt_bitmap, i) ==
    (cbt_bitmap[(i \div 8) + 1] \div Pow2(7 - (i % 8))) % 2 = 1

\* indices of the 1-bits of a bitmap
OneBits(b) == {k \in 0..(BitLen(b) - 1) : BitAt(b, k)}

\* the loop of _bitmap_to_extents from bit i on, with the generator's locals
RECURSIVE BitScan(_, _, _, _, _)
BitScan(cbt_bitmap, i, start, length, out) ==
    IF i >= BitLen(cbt_bitmap)
    THEN IF start # None
         THEN Append(out, <<start * BLOCK_SIZE, length * BLOCK_SIZE>>)
         ELSE out
    ELSE IF BitAt(cbt_bitmap, i)
         THEN IF start = None
              THEN BitScan(cbt_bitmap, i + 1, i, 1, out)
              ELSE BitScan(cbt_bitmap, i + 1, start, length + 1, out)
         ELSE IF start # None
              THEN BitScan(cbt_bitmap, i + 1, None, length,
                           Append(out, <<start * BLOCK_SIZE, length * BLOCK_SIZE>>))
              ELSE BitScan(cbt_bitmap, i + 1, start, length, out)

\* variant: the run still open at the end of the bitmap is not yielded
RECURSIVE BitScanNoTail(_, _, _, _, _)
BitScanNoTail(cbt_bitmap, i, start, length, out) ==
    IF i >= BitLen(cbt_bitmap)
    THEN out
    ELSE IF BitAt(cbt_bitmap, i)
         THEN IF start = None
              THEN BitScanNoTail(cbt_bitmap, i + 1, i, 1, out)
              ELSE BitScanNoTail(cbt_bitmap, i + 1, start, length + 1, out)
         ELSE IF start # None
              THEN BitScanNoTail(cbt_bitmap, i + 1, None, length,
                                 Append(out, <<start * BLOCK_SIZE, length * BLOCK_SIZE>>))
              ELSE BitScanNoTail(cbt_bitmap, i + 1, start, length, out)

_bitmap_to_extents_no_tail(cbt_bitmap) == BitScanNoTail(cbt_bitmap, 0, None, 0, <<>>)

\* variant: every set bit is yielded as an extent of its own
RECURSIVE BitScanPerBit(_, _, _)
BitScanPerBit(cbt_bitmap, i, out) ==
    IF i >= BitLen(cbt_bitmap)
    THEN out
    ELSE IF BitAt(cbt_bitmap, i)
         THEN BitScanPerBit(cbt_bitmap, i + 1, Append(out, <<i * BLOCK_SIZE, BLOCK_SIZE>>))
         ELSE BitScanPerBit(cbt_bitmap, i + 1, out)

_bitmap_to_extents_per_bit(cbt_bitmap) == BitScanPerBit(cbt_bitmap, 0, <<>>)

_bitmap_to_extents(cbt_bitmap) == BitScan(cbt_bitmap, 0, None, 0, <<>>)

\* the for loop of _merge_adjacent_extents over the rest of the iterator
RECURSIVE MergeLoop(_, _, _)
MergeLoop(rest, last, out) ==
    IF rest = <<>>
    THEN Append(out, last)
    ELSE LET extent == Head(rest)
         IN  IF extent[1] = last[1] + last[2]
             THEN MergeLoop(Tail(rest), <<last[1], last[2] + extent[2]>>, out)
             ELSE MergeLoop(Tail(rest), extent, Append(out, last))

\* list(_merge_adjacent_extents(iter(extents))).  The argument is an iterator,
\* which is always truthy, so `if not extents: return` never returns; on an
\* exhausted iterator next(extents) raises StopIteration inside the generator.
_merge_adjacent_extents(exts) ==
    IF exts = <<>>
    THEN IF pep479 THEN Raise("RuntimeError", <<>>) ELSE Ok(<<>>)
    ELSE Ok(MergeLoop(Tail(exts), Head(exts), <<>>))

\* the for loop of _get_changed_blocks_size from bit i on; this variant counts
\* every bit
RECURSIVE CountBitsAll(_, _, _)
CountBitsAll(cbt_bitmap, i, modified) ==
    IF i >= BitLen(cbt_bitmap)
    THEN modified
    ELSE CountBitsAll(cbt_bitmap, i + 1, modified + 1)

\* variant: every block of the disk counts as changed
_get_changed_blocks_size_all_bits(cbt_bitmap) ==
    CountBitsAll(cbt_bitmap, 0, 0) * BLOCK_SIZE

\* the for loop of _get_changed_blocks_size from bit i on
RECURSIVE CountBits(_, _, _)
CountBits(cbt_bitmap, i, modified) ==
    IF i >= BitLen(cbt_bitmap)
    THEN modified
    ELSE IF BitAt(cbt_bitmap, i)
         THEN CountBits(cbt_bitmap, i + 1, modified + 1)
         ELSE CountBits(cbt_bitmap, i + 1, modified)

_get_changed_blocks_size(cbt_bitmap) == CountBits(cbt_bitmap, 0, 0) * BLOCK_SIZE

_get_disk_size(cbt_bitmap) == BitLen(cbt_bitmap) * BLOCK_SIZE

NoStatistics == [size |-> None, changed_blocks_size |-> None]

\* CbtBitmap(b).get_statistics(): the dictionary it returns
get_statistics(self_bitmap) ==
    [size |-> _get_disk_size(self_bitmap),
     changed_blocks_size |-> _get_changed_blocks_size(self_bitmap)]

\* list(CbtBitmap(b).get_extents(*args)); args are the positional arguments
\* given after self
get_extents(self_bitmap, args) ==
    IF Len(args) # 1
    THEN Raise("TypeError", <<>>)
    ELSE IF args[1]
         THEN _merge_adjacent_extents(_bitmap_to_extents(self_bitmap))
         ELSE Ok(_bitmap_to_extents(self_bitmap))

\* ---------------------------------------------------------------------------
\* Files.  A file's content is a sequence of segments [src, off, len]: len
\* bytes that are the bytes off .. off+len-1 of src, where src is "export"
\* (the snapshot VDI served over NBD), "base" (the content of the base
\* backup's data file) or "zero" (a hole left by seeking past the end).
\* ---------------------------------------------------------------------------
Seg(src, off, len) == [src |-> src, off |-> off, len |-> len]

NoFile == [exists |-> FALSE, segs |-> <<>>]

RECURSIVE FileLen(_)
FileLen(segs) == IF segs = <<>> THEN 0 ELSE Head(segs).len + FileLen(Tail(segs))

\* the first n bytes of a content
RECURSIVE TakeBytes(_, _)
TakeBytes(segs, n) ==
    IF n <= 0 \/ segs = <<>>
    THEN <<>>
    ELSE LET h == Head(segs)
         IN  IF h.len <= n
             THEN <<h>> \o TakeBytes(Tail(segs), n - h.len)
             ELSE <<Seg(h.src, h.off, n)>>

\* the content after its first n bytes
RECURSIVE DropBytes(_, _)
DropBytes(segs, n) ==
    IF segs = <<>>
    THEN <<>>
    ELSE IF n <= 0
         THEN segs
         ELSE LET h == Head(segs)
              IN  IF h.len <= n
                  THEN DropBytes(Tail(segs), n - h.len)
                  ELSE <<Seg(h.src, h.off + n, h.len - n)>> \o Tail(segs)

\* canonical form: no empty segment, contiguous ranges of one source joined
RECURSIVE Normalize(_)
Normalize(segs) ==
    IF segs = <<>>
    THEN <<>>
    ELSE LET h == Head(segs)
             rest == Normalize(Tail(segs))
         IN  IF h.len = 0
             THEN rest
             ELSE IF rest # <<>> /\ Head(rest).src = h.src
                     /\ (h.src = "zero" \/ Head(rest).off = h.off + h.len)
                  THEN <<Seg(h.src, h.off, h.len + Head(rest).len)>> \o Tail(rest)
                  ELSE <<h>> \o rest

\* out.seek(pos); out.write(data) on a file opened 'r+b'
WriteAt(segs, pos, data) ==
    IF data.len = 0
    THEN segs
    ELSE LET gap == IF pos > FileLen(segs)
                    THEN <<Seg("zero", 0, pos - FileLen(segs))>>
                    ELSE <<>>
         IN  Normalize(TakeBytes(segs, pos) \o gap \o <<data>>
                       \o DropBytes(segs, pos + data.len))

\* out.seek(pos); out.write(data) on a file opened 'ab': every write goes to
\* the end of the file, whatever the position
WriteAppend(segs, pos, data) == Normalize(segs \o <<data>>)

\* the bytes a .. b-1 of a content
Slice(segs, a, b) == Normalize(TakeBytes(DropBytes(segs, a), b - a))

\* ---------------------------------------------------------------------------
\* python_nbd_client.py, as VdiDownloader uses it
\* ---------------------------------------------------------------------------
NBD_CMD_READ == 0
NBD_CMD_DISC == 2

NoClient ==
    [_closed |-> TRUE, _transmission_phase |-> FALSE, _handle |-> 0,
     _size |-> 0, sent |-> <<>>]

\* PythonNbdClient(**vdi_nbd_server_info, use_tls=...): socket connected,
\* fixed-newstyle handshake and connect(exportname) done
NewClient(size) ==
    [_closed |-> FALSE, _transmission_phase |-> TRUE, _handle |-> 0,
     _size |-> size, sent |-> <<>>]

_check_alignment(value) == value % 512 = 0

\* the header is sent with the handle of the request before
_send_request_header_same_handle(c, request_type, offset, length) ==
    [c EXCEPT !.sent = Append(c.sent, <<request_type, c._handle, offset, length>>)]

\* _send_request_header: the handle is incremented, then the header is sent
_send_request_header(c, request_type, offset, length) ==
    [c EXCEPT !._handle = c._handle + 1,
              !.sent = Append(c.sent, <<request_type, c._handle + 1, offset, length>>)]

\* PythonNbdClient.read against a server that answers every request with the
\* export's bytes: [exc, val, client]
nbd_read(c, offset, length) ==
    IF ~_check_alignment(offset) \/ ~_check_alignment(length)
    THEN [exc |-> "ValueError", val |-> Seg("export", 0, 0), client |-> c]
    ELSE IF length < 0
         \* struct.pack('>LHHQQL', ...) refuses a negative length, after
         \* self._handle += 1 and before anything is sent
         THEN [exc |-> "struct.error", val |-> Seg("export", 0, 0),
               client |-> [c EXCEPT !._handle = c._handle + 1]]
         ELSE [exc |-> "none", val |-> Seg("export", offset, length),
               client |-> _send_request_header(c, NBD_CMD_READ, offset, length)]

NBD_OPT_ABORT == 2

\* variant: the client is marked closed and nothing is sent
nbd_close_without_disconnect(c) == [c EXCEPT !._closed = TRUE]

\* PythonNbdClient.close with no unflushed write: _disconnect unless closed
nbd_close(c) ==
    IF ~c._closed
    THEN IF c._transmission_phase
         THEN [_send_request_header(c, NBD_CMD_DISC, 0, 0) EXCEPT !._closed = TRUE]
         ELSE [c EXCEPT !._closed = TRUE, !.sent = Append(c.sent, <<"option", NBD_OPT_ABORT>>)]
    ELSE c

\* ---------------------------------------------------------------------------
\* vdi_downloader.py
\* ---------------------------------------------------------------------------
Min(a, b) == IF a <= b THEN a ELSE b

\* full_vdi_backup: _get_nbd_info, then _download_vdi is entered
FullGetNbdInfo ==
    /\ dl_op = "full"
    /\ dl_pc = "start"
    /\ dl_pc' = "connect"
    /\ UNCHANGED <<dl_op, dl_exc, export_size, block_size, dl_bitmap, base_file,
                   out_file, todo, lazy_exc, current_offset, output_mode, nbd_client>>

\* variant: the source is moved to the destination
_copy_moving(src, dst, cp) ==
    [exc |-> "none", val |-> [exists |-> TRUE, segs |-> src.segs], src |-> NoFile]

\* _copy(src, dst) of a readable src to a writable dst: [exc, val, src], val
\* and src being dst and src afterwards.  cp is how
\* subprocess.check_output(["cp", "--reflink", src, dst]) ends: "cloned" if
\* cp exits with status 0, "CalledProcessError" if it exits with another
\* status (shutil.copy then writes dst anew), "OSError" if cp cannot be
\* executed, which the except clause does not catch
_copy(src, dst, cp) ==
    IF cp = "cloned"
    THEN [exc |-> "none", val |-> [exists |-> TRUE, segs |-> src.segs], src |-> src]
    ELSE IF cp = "CalledProcessError"
         THEN [exc |-> "none", val |-> [exists |-> TRUE, segs |-> src.segs],
               src |-> src]
         ELSE [exc |-> cp, val |-> dst, src |-> src]

\* incremental_vdi_backup: list_changed_blocks, _get_nbd_info, then
\* _copy(vdi_from_backup, output_file), with a cp that can be executed
IncrementalCopyBase ==
    /\ dl_op = "incremental"
    /\ dl_pc = "start"
    /\ \E cp \in {"cloned", "CalledProcessError"} :
       \E r \in {_copy(base_file, out_file, cp)} :
          /\ out_file' = r.val
          /\ base_file' = r.src
    /\ dl_pc' = "copied"
    /\ UNCHANGED <<dl_op, dl_exc, export_size, block_size, dl_bitmap,
                   todo, lazy_exc, current_offset, output_mode, nbd_client>>

\* the same step on a host where cp cannot be executed: what _copy raises
\* leaves incremental_vdi_backup
IncrementalCopyBaseNoCp ==
    /\ dl_op = "incremental"
    /\ dl_pc = "start"
    /\ \E r \in {_copy(base_file, out_file, "OSError")} :
          /\ out_file' = r.val
          /\ base_file' = r.src
          /\ dl_exc' = r.exc
          /\ dl_pc' = IF r.exc = "none" THEN "copied" ELSE "raised"
    /\ UNCHANGED <<dl_op, export_size, block_size, dl_bitmap,
                   todo, lazy_exc, current_offset, output_mode, nbd_client>>

\* _download_changed_blocks up to the with statement:
\* bitmap = CbtBitmap(bitmap); extents = bitmap.get_extents()
DownloadChangedBlocks ==
    /\ dl_op = "incremental"
    /\ dl_pc = "copied"
    /\ LET r == get_extents(dl_bitmap, <<>>)
       IN  IF r.exc = "TypeError"
           THEN /\ dl_exc' = r.exc
                /\ dl_pc' = "raised"
                /\ UNCHANGED <<todo, lazy_exc>>
           ELSE /\ todo' = r.val
                /\ lazy_exc' = r.exc
                /\ dl_pc' = "connect"
                /\ UNCHANGED dl_exc
    /\ UNCHANGED <<dl_op, export_size, block_size, dl_bitmap, base_file,
                   out_file, current_offset, output_mode, nbd_client>>

\* with self._nbd_client(vdi_nbd_server_info) as nbd_client; in _download_vdi
\* also size = nbd_client.get_size() and extents = [(0, size)]
OpenClient ==
    /\ dl_pc = "connect"
    /\ nbd_client' = NewClient(export_size)
    /\ todo' = IF dl_op = "full" THEN << <<0, nbd_client'._size>> >> ELSE todo
    /\ dl_pc' = "client"
    /\ UNCHANGED <<dl_op, dl_exc, export_size, block_size, dl_bitmap, base_file,
                   out_file, lazy_exc, current_offset, output_mode>>

\* _download_nbd_extents: with Path(out_file).open(output_mode.value) as out.
\* 'ab' creates a missing file, 'r+b' needs the file
OpenOutput ==
    /\ dl_pc = "client"
    /\ LET mode == IF dl_op = "full" THEN "APPEND"
                   ELSE IF dl_op = "incremental" THEN "OVERWRITE"
                   ELSE ext_args.output_mode
       IN  IF mode = "OVERWRITE" /\ ~out_file.exists
           THEN /\ dl_exc' = "FileNotFoundError"
                /\ dl_pc' = "exit_client"
                /\ UNCHANGED <<out_file, output_mode>>
           ELSE /\ out_file' = [out_file EXCEPT !.exists = TRUE]
                /\ output_mode' = mode
                /\ dl_pc' = "loop"
                /\ UNCHANGED dl_exc
    /\ UNCHANGED <<dl_op, export_size, block_size, dl_bitmap, base_file,
                   todo, lazy_exc, current_offset, nbd_client>>

\* the extents iterator is exhausted: the file is closed and the with
\* statement of the client is left
LoopDone ==
    /\ dl_pc = "loop"
    /\ todo = <<>>
    /\ dl_exc' = lazy_exc
    /\ output_mode' = "closed"
    /\ dl_pc' = "exit_client"
    /\ UNCHANGED <<dl_op, export_size, block_size, dl_bitmap, base_file,
                   out_file, todo, lazy_exc, current_offset, nbd_client>>

\* range(offset, end, self._block_size) has no further value: next extent
NextExtent ==
    /\ dl_pc = "loop"
    /\ todo # <<>>
    /\ LET offset == Head(todo)[1]
           end == Head(todo)[1] + Head(todo)[2]
           cur == IF current_offset = None THEN offset ELSE current_offset
       IN  cur >= end
    /\ todo' = Tail(todo)
    /\ current_offset' = None
    /\ UNCHANGED <<dl_op, dl_pc, dl_exc, export_size, block_size, dl_bitmap,
                   base_file, out_file, lazy_exc, output_mode, nbd_client>>

\* one iteration of the inner loop: nbd_client.read, out.seek, out.write
DownloadBlock ==
    /\ dl_pc = "loop"
    /\ todo # <<>>
    /\ LET offset == Head(todo)[1]
           end == Head(todo)[1] + Head(todo)[2]
           cur == IF current_offset = None THEN offset ELSE current_offset
           block_length == Min(block_size, end - cur)
           r == nbd_read(nbd_client, cur, block_length)
       IN  /\ cur < end
           /\ nbd_client' = r.client
           /\ IF r.exc # "none"
              THEN /\ dl_exc' = r.exc
                   /\ output_mode' = "closed"
                   /\ dl_pc' = "exit_client"
                   /\ UNCHANGED <<out_file, current_offset>>
              ELSE /\ out_file' =
                        [out_file EXCEPT !.segs =
                            IF output_mode = "APPEND"
                            THEN WriteAppend(out_file.segs, cur, r.val)
                            ELSE WriteAt(out_file.segs, cur, r.val)]
                   /\ current_offset' = cur + block_size
                   /\ UNCHANGED <<dl_exc, output_mode, dl_pc>>
    /\ UNCHANGED <<dl_op, export_size, block_size, dl_bitmap, base_file,
                   todo, lazy_exc>>

\* one iteration of the inner loop fails: nbd_client.read has sent its
\* request and raises on the reply (an error reply, a malformed one, the end
\* of the stream, a timeout), or out.seek / out.write raises
DownloadBlockFails ==
    /\ dl_pc = "loop"
    /\ todo # <<>>
    /\ LET offset == Head(todo)[1]
           end == Head(todo)[1] + Head(todo)[2]
           cur == IF current_offset = None THEN offset ELSE current_offset
           block_length == Min(block_size, end - cur)
           r == nbd_read(nbd_client, cur, block_length)
       IN  /\ cur < end
           /\ r.exc = "none"
           /\ nbd_client' = r.client
    /\ dl_exc' \in {"NBDTransmissionError", "NBDProtocolError", "NBDEOFError",
                    "timeout", "OSError"}
    /\ output_mode' = "closed"
    /\ dl_pc' = "exit_client"
    /\ UNCHANGED <<dl_op, export_size, block_size, dl_bitmap, base_file,
                   out_file, todo, lazy_exc, current_offset>>

\* PythonNbdClient.__exit__: close(); the exception in flight, if any, is
\* propagated to the caller of the VdiDownloader method
ExitClient ==
    /\ dl_pc = "exit_client"
    /\ nbd_client' = nbd_close(nbd_client)
    /\ dl_pc' = IF dl_exc = "none" THEN "returned" ELSE "raised"
    /\ UNCHANGED <<dl_op, dl_exc, export_size, block_size, dl_bitmap, base_file,
                   out_file, todo, lazy_exc, current_offset, output_mode>>

\* the VdiDownloader method has returned or raised
Exited == dl_pc \in {"returned", "raised"}

\* ---------------------------------------------------------------------------
\* backup.py
\* ---------------------------------------------------------------------------
NumVdis == 2
MaxPrior == 2
MaxTime == 2
NumTimestamps == 2

\* the live VDIs get_vdis_of_vm yields for the VM; the VM snapshot has one
\* snapshot VDI for each, yielded in the same order
Vdis == 1..NumVdis

\* snapshot_time of the VDIs of the VM snapshot this backup takes
NewTime == MaxTime + 1

\* an earlier snapshot of a live VDI, as the server and the backup root show it
PriorSnapshots == [time : 1..MaxTime, data : BOOLEAN]

\* snapshot 0 of the live VDI v is its VDI in the new VM snapshot, snapshot
\* s > 0 is chain[s]; VDI.get_snapshots(v) lists them all
get_snapshots(v, chain) ==
    [s \in 1..Len(chain) |-> s] \o (IF snap_vdi[v] = "none" THEN <<>> ELSE <<0>>)

_snapshot_timestamp(chain, s) == IF s = 0 THEN NewTime ELSE chain[s].time

\* variant: the data file of the new snapshot is there before the lookup
_get_local_backup_of_snapshot_written(v, chain, s) ==
    IF s = 0 THEN TRUE ELSE chain[s].data

\* _get_local_backup_of_snapshot(s) is not None: the glob **/<uuid>/data
\* under the backup root finds a file
_get_local_backup_of_snapshot(v, chain, s) ==
    IF s = 0 THEN <<v, "data">> \in bdir.files ELSE chain[s].data

\* sorted(snapshots, key=self._snapshot_timestamp, reverse=True): a stable
\* sort, elements with equal keys keep their order
RECURSIVE InsertNewestFirst(_, _, _)
InsertNewestFirst(chain, sorted, s) ==
    IF sorted = <<>>
    THEN <<s>>
    ELSE IF _snapshot_timestamp(chain, Head(sorted)) >= _snapshot_timestamp(chain, s)
         THEN <<Head(sorted)>> \o InsertNewestFirst(chain, Tail(sorted), s)
         ELSE <<s>> \o sorted

\* variant: sorted without reverse=True
RECURSIVE InsertOldestFirst(_, _, _)
InsertOldestFirst(chain, sorted, s) ==
    IF sorted = <<>>
    THEN <<s>>
    ELSE IF _snapshot_timestamp(chain, Head(sorted)) <= _snapshot_timestamp(chain, s)
         THEN <<Head(sorted)>> \o InsertOldestFirst(chain, Tail(sorted), s)
         ELSE <<s>> \o sorted

RECURSIVE SortedOldestFirst(_, _, _)
SortedOldestFirst(chain, snapshots, sorted) ==
    IF snapshots = <<>>
    THEN sorted
    ELSE SortedOldestFirst(chain, Tail(snapshots),
                           InsertOldestFirst(chain, sorted, Head(snapshots)))

RECURSIVE SortedNewestFirst(_, _, _)
SortedNewestFirst(chain, snapshots, sorted) ==
    IF snapshots = <<>>
    THEN sorted
    ELSE SortedNewestFirst(chain, Tail(snapshots),
                           InsertNewestFirst(chain, sorted, Head(snapshots)))

\* next(iter(...), None) over the snapshots that have a local backup
RECURSIVE FirstWithBackup(_, _, _)
FirstWithBackup(v, chain, snapshots) ==
    IF snapshots = <<>>
    THEN None
    ELSE IF _get_local_backup_of_snapshot(v, chain, Head(snapshots))
         THEN Head(snapshots)
         ELSE FirstWithBackup(v, chain, Tail(snapshots))

_get_latest_backup_of_vdi_oldest(v, chain) ==
    FirstWithBackup(v, chain, SortedOldestFirst(chain, get_snapshots(v, chain), <<>>))

\* _get_latest_backup_of_vdi(snapshot VDI of live VDI v): the snapshot whose
\* backup is the base, or None
_get_latest_backup_of_vdi(v, chain) ==
    FirstWithBackup(v, chain, SortedNewestFirst(chain, get_snapshots(v, chain), <<>>))

\* variant: the assertion of _compare_checksums is missing
_compare_checksums_unchecked(backup_checksum, server_checksum) == "none"

\* _compare_checksums: assert backup_checksum == checksum
_compare_checksums(backup_checksum, server_checksum) ==
    IF backup_checksum = server_checksum THEN "none" ELSE "AssertionError"

\* variant: the two branches of the cleanup loop exchanged
cleanup_call_swapped(cbt) == IF cbt THEN "VDI.destroy" ELSE "VDI.data_destroy"

\* the call the cleanup loop of _vm_backup issues for a snapshot VDI
cleanup_call(cbt) == IF cbt THEN "VDI.data_destroy" ELSE "VDI.destroy"

\* the values of _get_timestamp(): one name per second
Timestamps == 1..NumTimestamps

NoDir == [exists |-> FALSE, files |-> {}]

\* the directory an earlier backup() of the VM completed
CompletedBackup ==
    [exists |-> TRUE,
     files |-> {<<0, "VM_metadata">>}
                  \cup {<<v, f>> : v \in Vdis, f \in {"original_uuid", "data"}}]

\* variant: backup_dir.mkdir(exist_ok=True)
mkdir_exist_ok(dir) == [exc |-> "none", dir |-> [dir EXCEPT !.exists = TRUE]]

\* backup_dir.mkdir(): FileExistsError if the path exists
mkdir(dir) ==
    IF dir.exists
    THEN [exc |-> "FileExistsError", dir |-> dir]
    ELSE [exc |-> "none", dir |-> [exists |-> TRUE, files |-> {}]]

\* variant: the handler re-raises without removing the directory
except_handler_keep(dir, exc) == [bdir |-> dir, raised |-> exc]

\* except: shutil.rmtree(backup_dir); raise
except_handler(dir, exc) ==
    [bdir |-> [exists |-> FALSE, files |-> {}], raised |-> exc]

\* variant: no SR is taken to allow the CBT operations
vdi_supports_cbt_never(allowed_operations) == FALSE

\* vdi_supports_cbt: the three CBT operations are among the allowed
\* operations of the VDI's SR
vdi_supports_cbt(allowed_operations) ==
    {"vdi_enable_cbt", "vdi_list_changed_blocks", "vdi_data_destroy"}
        \subseteq allowed_operations

\* answers of SR.get_allowed_operations
AllowedOperations ==
    {{"vdi_create", "vdi_enable_cbt", "vdi_list_changed_blocks", "vdi_data_destroy"},
     {"vdi_create", "vdi_enable_cbt", "vdi_data_destroy"},
     {"vdi_create"}}

\* a step of backup() raises e: control goes to the except clause
RaiseAt(e) ==
    /\ bk_exc' = e
    /\ failed_step' = bk_pc
    /\ bk_pc' = "except"

\* bitmaps VDI.list_changed_blocks can return for a disk of the given size:
\* one bit per 64 KiB block, padded with clear bits to a byte boundary
ChangedBlockBitmaps(size) ==
    {b \in Bitmaps :
        /\ (BitLen(b) - 8) * BLOCK_SIZE < size
        /\ size <= BitLen(b) * BLOCK_SIZE
        /\ \A k \in OneBits(b) : k * BLOCK_SIZE < size}

\* backup() up to the try statement: VM.get_by_uuid, _get_vm_dir,
\* _get_timestamp, backup_dir.mkdir()
BackupStart ==
    /\ bk_pc = "start"
    /\ \E ok \in BOOLEAN, t \in Timestamps :
        \E r \in {mkdir(vm_dir[t])} :
            IF ok /\ r.exc = "none"
            THEN /\ bdir' = r.dir
                 /\ timestamp' = t
                 /\ bk_pc' = "enable_cbt"
                 /\ vdi_i' = 1
                 /\ UNCHANGED <<bk_exc, failed_step, bk_raised>>
            ELSE /\ bk_exc' = (IF ok THEN r.exc ELSE "Failure")
                 /\ bk_raised' = (IF ok THEN r.exc ELSE "Failure")
                 /\ failed_step' = bk_pc
                 /\ bk_pc' = "raised"
                 /\ UNCHANGED <<bdir, timestamp, vdi_i>>
    /\ UNCHANGED vm_dir
    /\ UNCHANGED <<latest_backup, vdi_status, serverVars, downloadVars>>

\* enable_cbt: one iteration of its loop, or the end of the loop
EnableCbt ==
    /\ bk_pc = "enable_cbt"
    /\ IF vdi_i > NumVdis
       THEN /\ bk_pc' = "snapshot"
            /\ UNCHANGED <<cbt_enabled, bk_exc, failed_step, vdi_i>>
       ELSE \E ok \in BOOLEAN :
               IF ~ok
               THEN /\ RaiseAt("Failure")
                    /\ UNCHANGED <<cbt_enabled, vdi_i>>
               ELSE /\ cbt_enabled' =
                        IF vdi_supports_cbt(sr_allowed_operations[vdi_i])
                        THEN [cbt_enabled EXCEPT ![vdi_i] = TRUE]
                        ELSE cbt_enabled
                    /\ vdi_i' = vdi_i + 1
                    /\ UNCHANGED <<bk_pc, bk_exc, failed_step>>
    /\ UNCHANGED <<sr_allowed_operations, prior, vm_snapshot, snap_vdi, snap_cbt,
                   calls, latest_backup, vdi_status, bk_raised, bdir, downloadVars>>

\* _snapshot_vm and VM.get_uuid: every VDI of the VM gets a snapshot VDI,
\* which inherits cbt_enabled
SnapshotVm ==
    /\ bk_pc = "snapshot"
    /\ \E ok \in BOOLEAN :
        IF ok
        THEN /\ vm_snapshot' = "exists"
             /\ snap_vdi' = [v \in Vdis |-> "exists"]
             /\ snap_cbt' = cbt_enabled
             /\ bk_pc' = "metadata"
             /\ UNCHANGED <<bk_exc, failed_step>>
        ELSE /\ RaiseAt("Failure")
             /\ UNCHANGED <<vm_snapshot, snap_vdi, snap_cbt>>
    /\ UNCHANGED <<cbt_enabled, sr_allowed_operations, prior, calls, vdi_i, latest_backup,
                   vdi_status, bk_raised, bdir, downloadVars>>

\* _save_vm_metadata, and the first line of _vm_backup
SaveVmMetadata ==
    /\ bk_pc = "metadata"
    /\ \E ok \in BOOLEAN :
        IF ok
        THEN /\ bdir' = [bdir EXCEPT !.files = @ \cup {<<0, "VM_metadata">>}]
             /\ bk_pc' = "vdi_lookup"
             /\ vdi_i' = 1
             /\ UNCHANGED <<bk_exc, failed_step>>
        ELSE /\ RaiseAt("Failure")
             /\ UNCHANGED <<bdir, vdi_i>>
    /\ UNCHANGED <<latest_backup, vdi_status, bk_raised, serverVars, downloadVars>>

\* _vm_backup: the end of the backup loop, or _vdi_backup up to the choice
\* of latest_backup
VdiLookup ==
    /\ bk_pc = "vdi_lookup"
    /\ IF vdi_i > NumVdis
       THEN /\ bk_pc' = "vm_destroy"
            /\ UNCHANGED <<prior, latest_backup, vdi_status, bk_exc, failed_step>>
       ELSE \E ok \in BOOLEAN, chain \in SeqsUpTo(PriorSnapshots, MaxPrior) :
               /\ prior' = chain
               /\ vdi_status' = [vdi_status EXCEPT ![vdi_i] = "started"]
               /\ IF ok
                  THEN /\ latest_backup' = IF snap_cbt[vdi_i]
                                           THEN _get_latest_backup_of_vdi(vdi_i, chain)
                                           ELSE None
                       /\ bk_pc' = "vdi_dir"
                       /\ UNCHANGED <<bk_exc, failed_step>>
                  ELSE /\ RaiseAt("Failure")
                       /\ UNCHANGED latest_backup
    /\ UNCHANGED <<vdi_i, bk_raised, bdir, cbt_enabled, sr_allowed_operations, vm_snapshot, snap_vdi,
                   snap_cbt, calls, downloadVars>>

\* _vdi_backup: vdi_dir.mkdir, original_uuid written, then the call of
\* full_vdi_backup or (after list_changed_blocks and get_statistics) of
\* incremental_vdi_backup
VdiBackupCall ==
    /\ bk_pc = "vdi_dir"
    /\ \E ok \in BOOLEAN :
        IF ok
        THEN /\ bdir' = [bdir EXCEPT !.files = @ \cup {<<vdi_i, "original_uuid">>}]
             /\ dl_op' = IF latest_backup = None THEN "full" ELSE "incremental"
             /\ dl_pc' = "start"
             /\ dl_exc' = "none"
             /\ dl_bitmap' \in (IF latest_backup = None
                                THEN {<<>>}
                                ELSE ChangedBlockBitmaps(export_size))
             /\ base_file' = IF latest_backup = None
                             THEN NoFile
                             ELSE [exists |-> TRUE,
                                   segs |-> Normalize(<<Seg("base", 0, export_size)>>)]
             /\ out_file' = NoFile
             /\ todo' = <<>>
             /\ lazy_exc' = "none"
             /\ current_offset' = None
             /\ output_mode' = "closed"
             /\ nbd_client' = NoClient
             /\ bk_pc' = "download"
             /\ UNCHANGED <<bk_exc, failed_step>>
        ELSE /\ RaiseAt("Failure")
             /\ UNCHANGED <<bdir, dl_op, dl_pc, dl_exc, dl_bitmap, base_file,
                            out_file, todo, lazy_exc, current_offset, output_mode,
                            nbd_client>>
    /\ UNCHANGED <<export_size, block_size, vdi_i, latest_backup, vdi_status,
                   bk_raised, serverVars>>

\* PythonNbdClient(...) raises: the server cannot be reached or the
\* handshake fails
OpenClientFails ==
    /\ dl_pc = "connect"
    /\ dl_exc' = "OSError"
    /\ dl_pc' = "raised"
    /\ UNCHANGED <<dl_op, export_size, block_size, dl_bitmap, base_file,
                   out_file, todo, lazy_exc, current_offset, output_mode, nbd_client>>

\* the VdiDownloader method returns to _vdi_backup or raises
VdiBackupDownloaded ==
    /\ bk_pc = "download"
    /\ Exited
    /\ bdir' = IF out_file.exists
               THEN [bdir EXCEPT !.files = @ \cup {<<vdi_i, "data">>}]
               ELSE bdir
    /\ IF dl_pc = "raised"
       THEN RaiseAt(dl_exc)
       ELSE /\ bk_pc' = "checksum"
            /\ UNCHANGED <<bk_exc, failed_step>>
    /\ UNCHANGED <<vdi_i, latest_backup, vdi_status, bk_raised, serverVars, downloadVars>>

\* _compare_checksums(vdi, output_file).  The server's checksum is that of
\* the export; it equals the file's MD5 only if the file is the export
VdiCompareChecksums ==
    /\ bk_pc = "checksum"
    /\ \E ok \in BOOLEAN, server_checksum \in {"md5(export)", "md5(other)"} :
        LET backup_checksum ==
                IF out_file.segs = Normalize(<<Seg("export", 0, export_size)>>)
                THEN "md5(export)"
                ELSE "md5(file)"
            e == _compare_checksums(backup_checksum, server_checksum)
        IN  IF ~ok
            THEN /\ RaiseAt("Failure")
                 /\ UNCHANGED <<vdi_status, vdi_i>>
            ELSE /\ vdi_status' = [vdi_status EXCEPT ![vdi_i] =
                        IF backup_checksum = server_checksum THEN "equal" ELSE "differ"]
                 /\ IF e # "none"
                    THEN /\ RaiseAt(e)
                         /\ UNCHANGED vdi_i
                    ELSE /\ vdi_i' = vdi_i + 1
                         /\ bk_pc' = "vdi_lookup"
                         /\ UNCHANGED <<bk_exc, failed_step>>
    /\ UNCHANGED <<latest_backup, bk_raised, bdir, serverVars, downloadVars>>

\* _vm_backup: VM.destroy(vm_snapshot)
VmDestroy ==
    /\ bk_pc = "vm_destroy"
    /\ calls' = Append(calls, <<"VM.destroy", 0>>)
    /\ \E ok \in BOOLEAN :
        IF ok
        THEN /\ vm_snapshot' = "destroyed"
             /\ bk_pc' = "cleanup"
             /\ vdi_i' = 1
             /\ UNCHANGED <<bk_exc, failed_step>>
        ELSE /\ RaiseAt("Failure")
             /\ UNCHANGED <<vm_snapshot, vdi_i>>
    /\ UNCHANGED <<cbt_enabled, sr_allowed_operations, prior, snap_vdi, snap_cbt,
                   latest_backup, vdi_status, bk_raised, bdir, downloadVars>>

\* _vm_backup: one iteration of the cleanup loop, or its end and the return
\* of the timestamp by backup()
VdiCleanup ==
    /\ bk_pc = "cleanup"
    /\ IF vdi_i > NumVdis
       THEN /\ bk_pc' = "returned"
            /\ UNCHANGED <<calls, snap_vdi, vdi_i, bk_exc, failed_step>>
       ELSE LET call == cleanup_call(snap_cbt[vdi_i])
            IN  /\ calls' = Append(calls, <<call, vdi_i>>)
                /\ \E ok \in BOOLEAN :
                    IF ok
                    THEN /\ snap_vdi' = [snap_vdi EXCEPT ![vdi_i] =
                                IF call = "VDI.data_destroy"
                                THEN "data_destroyed" ELSE "destroyed"]
                         /\ vdi_i' = vdi_i + 1
                         /\ UNCHANGED <<bk_pc, bk_exc, failed_step>>
                    ELSE /\ RaiseAt("Failure")
                         /\ UNCHANGED <<snap_vdi, vdi_i>>
    /\ UNCHANGED <<cbt_enabled, sr_allowed_operations, prior, vm_snapshot, snap_cbt,
                   latest_backup, vdi_status, bk_raised, bdir, downloadVars>>

\* the except clause of backup()
BackupExcept ==
    /\ bk_pc = "except"
    /\ LET h == except_handler(bdir, bk_exc)
       IN  /\ bdir' = h.bdir
           /\ bk_raised' = h.raised
    /\ bk_pc' = "raised"
    /\ UNCHANGED <<bk_exc, failed_step, vdi_i, latest_backup, vdi_status,
                   serverVars, downloadVars>>

\* ---------------------------------------------------------------------------
\* python_nbd_client.py: the PythonNbdClient and the bytes on its socket

\* ---------------------------------------------------------------------------
NBD_CMD_WRITE == 1
NBD_CMD_FLUSH == 3
NBD_CMD_BLOCK_STATUS == 7

NBD_FLAG_HAS_FLAGS == 1
NBD_FLAG_SEND_FLUSH == 4
NBD_FLAG_C_FIXED_NEWSTYLE == 1

NBD_OPT_EXPORT_NAME == 1
NBD_OPT_STARTTLS == 5
NBD_OPT_STRUCTURED_REPLY == 8
NBD_OPT_LIST_META_CONTEXT == 9
NBD_OPT_SET_META_CONTEXT == 10

NBD_REP_ACK == 1

NBD_SIMPLE_REPLY_MAGIC == 1732535960
NBD_STRUCTURED_REPLY_MAGIC == 1720595439

NBD_REPLY_FLAG_DONE == 1

\* An unsigned 32-bit value as its two 16-bit halves
U32(hi, lo) == <<hi, lo>>

\* NBD_REP_ERROR_BIT = (1 << 31)
NBD_REP_ERROR_BIT == U32(32768, 0)

\* The 8-byte magic numbers, each as the text of its 16 hexadecimal digits;
\* NBDMAGIC and IHAVEOPT as the text the code compares the bytes with
OPTION_REPLY_MAGIC == "0003e889045565a9"

\* the magic 0x00420281861253 that _old_style_handshake expects
OLD_STYLE_MAGIC == "0000420281861253"

\* x & bit != 0, for a single-bit mask
HasBit(x, bit) == (x \div bit) % 2 = 1

\* reply_type & NBD_REP_ERROR_BIT != 0
HasErrorBit(reply_type) == reply_type[1] >= NBD_REP_ERROR_BIT[1]

\* ---- the receiving side of the socket: a sequence of fields [len, val], a

\* ---- field being a run of bytes that one struct format item decodes to val
Field(len, val) == [len |-> len, val |-> val, whole |-> TRUE]

\* a part of a field: bytes that decode to nothing the model names
Garbage(len) == [len |-> len, val |-> 0, whole |-> FALSE]

RECURSIVE StreamLen(_)
StreamLen(fields) ==
    IF fields = <<>> THEN 0 ELSE Head(fields).len + StreamLen(Tail(fields))

\* the first n bytes of the stream, n <= StreamLen(fields)
RECURSIVE TakeFields(_, _)
TakeFields(fields, n) ==
    IF n = 0 \/ fields = <<>> THEN <<>>
    ELSE IF Head(fields).len <= n
         THEN <<Head(fields)>> \o TakeFields(Tail(fields), n - Head(fields).len)
         ELSE <<Garbage(n)>>

\* the stream without its first n bytes
RECURSIVE DropFields(_, _)
DropFields(fields, n) ==
    IF n = 0 \/ fields = <<>> THEN fields
    ELSE IF Head(fields).len <= n
         THEN DropFields(Tail(fields), n - Head(fields).len)
         ELSE <<Garbage(Head(fields).len - n)>> \o Tail(fields)

\* F(v), with v evaluated once before F is
Bind(v, F(_)) == CHOOSE y \in {F(x) : x \in {v}} : TRUE

\* The environment of one call: net.frag is the most bytes one recv_into
\* returns, net.closed tells whether the peer has shut the connection down
\* once the bytes it sent are used up (recv_into then returns 0; otherwise it
\* blocks until the socket's timeout expires)
Net(frag, closed) == [frag |-> frag, closed |-> closed]

\* the while loop of _recvall: [exc, filled, rest]
RECURSIVE RecvLoop(_, _, _, _)
RecvLoop(filled, bytes_left, fields, net) ==
    IF bytes_left = 0
    THEN [exc |-> "none", filled |-> filled, rest |-> fields]
    ELSE Bind(Min(Min(bytes_left, net.frag), StreamLen(fields)), LAMBDA received :
         IF received = 0
         THEN [exc |-> IF net.closed THEN "NBDEOFError" ELSE "timeout",
               filled |-> filled, rest |-> fields]
         ELSE Bind(<<filled + received, bytes_left - received,
                     DropFields(fields, received)>>,
                   LAMBDA next : RecvLoop(next[1], next[2], next[3], net)))

\* one recv_into call instead of the loop
_recvall_single_recv(fields, length, net) ==
    Bind(Min(Min(length, net.frag), StreamLen(fields)), LAMBDA received :
         IF length > 0 /\ received = 0
         THEN [exc |-> IF net.closed THEN "NBDEOFError" ELSE "timeout",
               data |-> <<>>, length |-> length, rest |-> fields]
         ELSE [exc |-> "none", data |-> TakeFields(fields, received),
               length |-> length, rest |-> DropFields(fields, received)])

\* _recvall(length): [exc, data, length, rest]; data is what was received
\* into the bytearray of `length` bytes that is returned
_recvall(fields, length, net) ==
    Bind(RecvLoop(0, length, fields, net), LAMBDA r :
         [exc |-> r.exc, data |-> TakeFields(fields, r.filled),
          length |-> length, rest |-> r.rest])

\* struct.unpack(format, data): the values of the fields if the bytes are the
\* fields of the format, item by item; [ok |-> FALSE] if they are not
Unpack(data, format) ==
    IF /\ Len(data) = Len(format)
       /\ \A i \in 1..Len(format) : data[i].len = format[i] /\ data[i].whole
    THEN [ok |-> TRUE, v |-> [i \in 1..Len(format) |-> data[i].val]]
    ELSE [ok |-> FALSE, v |-> <<>>]

\* ---- the object ----
\* the fields __init__ sets before it creates the socket; sent, tls_at,
\* style and export_flags record what the object did: the items sent on the
\* socket in order, how many of them were sent before the socket was wrapped
\* in TLS (None if it never was), the handshake carried out, and the
\* transmission flags of the export it received from the server (None before
\* the transmission phase)
FreshClient ==
    [_flushed |-> TRUE, _closed |-> TRUE, _handle |-> 0,
     _last_sent_option |-> None, _structured_reply |-> FALSE,
     _transmission_phase |-> FALSE, _flags |-> 0, _size |-> 0,
     sent |-> <<>>, tls_at |-> None, style |-> "none", export_flags |-> None]

\* Python's True as a returned value: bool is a subclass of int, True == 1
True == 1

\* the result of a method: the exception raised ("none" if it returned), the
\* value returned, the object and the unread bytes afterwards
Res(exc, val, c, rest) == [exc |-> exc, val |-> val, client |-> c, rest |-> rest]

\* _assert_protocol(assertion): TRUE if it returns, FALSE if it raises
\* NBDProtocolError
_assert_protocol_never(assertion) == TRUE

_assert_protocol(assertion) == assertion

\* _send_option: IHAVEOPT, the header and the data are sent, then the option
\* is remembered
_send_option(c, option) ==
    [c EXCEPT !.sent = Append(c.sent, <<"option", option>>),
              !._last_sent_option = option]

\* _check_handle: TRUE if it returns, FALSE if it raises
_check_handle(c, handle) == handle = c._handle

\* _parse_simple_reply(data_length): [exc, val, rest]; val is the data
\* returned, with the handle of the reply it was read from
_parse_simple_reply(c, fields, data_length, net) ==
    Bind(_recvall(fields, 4 + 4 + 8, net), LAMBDA reply :
    Bind(Unpack(reply.data, <<4, 4, 8>>), LAMBDA u :
    LET magic == u.v[1]
        errno == u.v[2]
        handle == u.v[3]
    IN  IF reply.exc # "none"
        THEN [exc |-> reply.exc, val |-> None, rest |-> reply.rest]
        ELSE IF ~_assert_protocol(u.ok /\ magic = NBD_SIMPLE_REPLY_MAGIC)
        THEN [exc |-> "NBDProtocolError", val |-> None, rest |-> reply.rest]
        ELSE IF ~_check_handle(c, handle)
        THEN [exc |-> "NBDUnexpectedReplyHandleError", val |-> handle,
              rest |-> reply.rest]
        ELSE Bind(_recvall(reply.rest, data_length, net), LAMBDA data :
             IF data.exc # "none"
             THEN [exc |-> data.exc, val |-> None, rest |-> data.rest]
             ELSE IF errno # 0
             THEN [exc |-> "NBDTransmissionError", val |-> errno, rest |-> data.rest]
             ELSE [exc |-> "none",
                   val |-> [length |-> data.length, data |-> data.data,
                            handle |-> handle],
                   rest |-> data.rest])))

\* write(data, offset), data_len = len(data); resp is what the server sends
\* once it has the request
write_dirty_first(c, fields, data_len, offset, resp, net) ==
    LET c1 == [c EXCEPT !._flushed = FALSE]
        c2 == _send_request_header(c1, NBD_CMD_WRITE, offset, data_len)
        c3 == IF data_len > 0
              THEN [c2 EXCEPT !.sent = Append(c2.sent, <<"data", data_len>>)]
              ELSE c2
    IN  IF ~_check_alignment(offset) \/ ~_check_alignment(data_len)
        THEN Res("ValueError", None, c1, fields)
        ELSE Bind(_parse_simple_reply(c3, fields \o resp, 0, net), LAMBDA r :
             IF r.exc # "none"
             THEN Res(r.exc, r.val, c3, r.rest)
             ELSE Res("none", data_len, c3, r.rest))

write(c, fields, data_len, offset, resp, net) ==
    LET c1 == [c EXCEPT !._flushed = FALSE]
        c2 == _send_request_header(c1, NBD_CMD_WRITE, offset, data_len)
        c3 == IF data_len > 0
              THEN [c2 EXCEPT !.sent = Append(c2.sent, <<"data", data_len>>)]
              ELSE c2
    IN  IF ~_check_alignment(offset) \/ ~_check_alignment(data_len)
        THEN Res("ValueError", None, c, fields)
        ELSE Bind(_parse_simple_reply(c3, fields \o resp, 0, net), LAMBDA r :
             IF r.exc # "none"
             THEN Res(r.exc, r.val, c3, r.rest)
             ELSE Res("none", data_len, c3, r.rest))

\* read(offset, length)
read(c, fields, offset, length, resp, net) ==
    LET c1 == _send_request_header(c, NBD_CMD_READ, offset, length)
    IN  IF ~_check_alignment(offset) \/ ~_check_alignment(length)
        THEN Res("ValueError", None, c, fields)
        ELSE Bind(_parse_simple_reply(c1, fields \o resp, length, net), LAMBDA r :
             Res(r.exc, r.val, c1, r.rest))

_need_flush(c) == HasBit(c._flags, NBD_FLAG_SEND_FLUSH)

\* flush()
flush(c, fields, resp, net) ==
    LET c1 == _send_request_header(c, NBD_CMD_FLUSH, 0, 0)
    IN  IF ~_need_flush(c)
        THEN Res("none", True, [c EXCEPT !._flushed = TRUE], fields)
        ELSE Bind(_parse_simple_reply(c1, fields \o resp, 0, net), LAMBDA r :
             IF r.exc # "none"
             THEN Res(r.exc, r.val, c1, r.rest)
             ELSE Res("none", None, [c1 EXCEPT !._flushed = TRUE], r.rest))

\* _disconnect()
_disconnect(c) ==
    IF c._transmission_phase
    THEN _send_request_header(c, NBD_CMD_DISC, 0, 0)
    ELSE _send_option(c, NBD_OPT_ABORT)

\* close(); resp is what the server sends in reply to a flush request
close(c, fields, resp, net) ==
    Bind(IF ~c._flushed THEN flush(c, fields, resp, net)
                        ELSE Res("none", None, c, fields), LAMBDA f :
         IF f.exc # "none"
         THEN f
         ELSE IF ~f.client._closed
         THEN Res("none", None, [_disconnect(f.client) EXCEPT !._closed = TRUE], f.rest)
         ELSE Res("none", None, f.client, f.rest))

\* ---- structured replies ----
NBD_REPLY_TYPE_BLOCK_STATUS == 3

\* NBD_REPLY_TYPE_ERROR_BIT = (1 << 15)
NBD_REPLY_TYPE_ERROR_BIT == 32768

\* NBD_REPLY_TYPE_ERROR = (1 << 15 + 1): in Python + binds tighter than <<,
\* the value is 1 << 16
NBD_REPLY_TYPE_ERROR == Pow2(15 + 1)

\* NBD_REPLY_TYPE_ERROR_OFFSET = (1 << 15 + 2): 1 << 17
NBD_REPLY_TYPE_ERROR_OFFSET == Pow2(15 + 2)

\* bytearray == int: the operands are of different types, neither knows how
\* to compare itself with the other, and Python answers False
BytesEqInt(data, n) == FALSE

\* _handle_structured_reply_error(fields): [exc, rest, offset], offset
\* telling whether fields['offset'] was set
_handle_structured_reply_error(fields, reply_type, data_length, net) ==
    Bind(_recvall(fields, 4 + 2, net), LAMBDA buf :
    Bind(Unpack(buf.data, <<4, 2>>), LAMBDA e :
    LET remaining_length == data_length - 6
        Fail(exc, rest) == [exc |-> exc, rest |-> rest, offset |-> FALSE]
    IN  IF buf.exc # "none" THEN Fail(buf.exc, buf.rest)
        ELSE IF ~e.ok \/ remaining_length < 0 \/ e.v[2] > remaining_length
        THEN Fail("NBDProtocolError", buf.rest)
        ELSE Bind(_recvall(buf.rest, remaining_length, net), LAMBDA message :
             IF message.exc # "none" THEN Fail(message.exc, message.rest)
             ELSE IF reply_type = NBD_REPLY_TYPE_ERROR_OFFSET
             THEN IF remaining_length - e.v[2] < 8
                  THEN Fail("struct.error", message.rest)
                  ELSE [exc |-> "none", rest |-> message.rest, offset |-> TRUE]
             ELSE Fail("none", message.rest))))

\* _handle_block_status_reply and _handle_structured_reply_error: the bytes
\* of the chunk's payload that _parse_structured_reply_chunk consumes after
\* the header, [exc, rest]
ChunkPayload(fields, reply_type, data_length, net) ==
    IF reply_type = NBD_REPLY_TYPE_BLOCK_STATUS
    THEN Bind(_recvall(fields, data_length, net), LAMBDA status :
         IF status.exc # "none" THEN [exc |-> status.exc, rest |-> status.rest]
         ELSE IF data_length < 4 \/ (data_length - 4) % 8 # 0
         THEN [exc |-> "struct.error", rest |-> status.rest]
         ELSE [exc |-> "none", rest |-> status.rest])
    ELSE IF HasBit(reply_type, NBD_REPLY_TYPE_ERROR_BIT)
    THEN Bind(_handle_structured_reply_error(fields, reply_type, data_length, net),
              LAMBDA error : [exc |-> error.exc, rest |-> error.rest])
    ELSE [exc |-> "none", rest |-> fields]

\* _parse_structured_reply_chunk(read_magic): [exc, val, rest], val the
\* fields dictionary returned
_parse_structured_reply_chunk(c, fields, read_magic, net) ==
    Bind(IF read_magic THEN _recvall(fields, 4, net)
         ELSE [exc |-> "none", data |-> <<>>, length |-> 0, rest |-> fields],
         LAMBDA magic :
    IF magic.exc # "none"
    THEN [exc |-> magic.exc, val |-> None, rest |-> magic.rest]
    ELSE IF read_magic
            /\ ~_assert_protocol(BytesEqInt(magic.data, NBD_STRUCTURED_REPLY_MAGIC))
    THEN [exc |-> "NBDProtocolError", val |-> None, rest |-> magic.rest]
    ELSE Bind(_recvall(magic.rest, 2 + 2 + 8 + 4, net), LAMBDA reply :
         Bind(Unpack(reply.data, <<2, 2, 8, 4>>), LAMBDA u :
         LET flags == u.v[1]
             reply_type == u.v[2]
             handle == u.v[3]
             data_length == u.v[4]
         IN  IF reply.exc # "none"
             THEN [exc |-> reply.exc, val |-> None, rest |-> reply.rest]
             ELSE IF ~u.ok \/ ~_check_handle(c, handle)
             THEN [exc |-> "NBDUnexpectedReplyHandleError", val |-> None,
                   rest |-> reply.rest]
             ELSE Bind(ChunkPayload(reply.rest, reply_type, data_length, net),
                       LAMBDA payload :
                  IF payload.exc # "none"
                  THEN [exc |-> payload.exc, val |-> None, rest |-> payload.rest]
                  ELSE [exc |-> "none",
                        val |-> [flags |-> flags, reply_type |-> reply_type,
                                 data_length |-> data_length, handle |-> handle],
                        rest |-> payload.rest]))))

\* query_block_status(offset, length): the request is sent and a generator
\* that has not started to run is returned
query_block_status(c, offset, length) ==
    _send_request_header(c, NBD_CMD_BLOCK_STATUS, offset, length)

\* one next() on the generator of _parse_structured_reply_chunks, g the
\* generator: [exc, val, rest, gen]; exc is "StopIteration" when it returns
GenNext(c, fields, g, net) ==
    IF g.state # "created" /\ HasBit(g.reply.flags, NBD_REPLY_FLAG_DONE)
    THEN [exc |-> "StopIteration", val |-> None, rest |-> fields,
          gen |-> [state |-> "finished", handle |-> g.handle, reply |-> g.reply]]
    ELSE Bind(_parse_structured_reply_chunk(c, fields, TRUE, net), LAMBDA r :
         IF r.exc # "none"
         THEN [exc |-> r.exc, val |-> None, rest |-> r.rest,
               gen |-> [state |-> "finished", handle |-> g.handle, reply |-> g.reply]]
         ELSE [exc |-> "none", val |-> r.val, rest |-> r.rest,
               gen |-> [state |-> "suspended", handle |-> g.handle, reply |-> r.val]])

\* ---- option haggling ----
\* variant: the reply type is looked at before the option id
_parse_option_reply_type_first(c, fields, net) ==
    Bind(_recvall(fields, 8 + 4 + 4 + 4, net), LAMBDA reply :
    Bind(Unpack(reply.data, <<8, 4, 4, 4>>), LAMBDA u :
    LET magic == u.v[1]
        option == u.v[2]
        reply_type == u.v[3]
        data_length == u.v[4]
        Fail(e, rest) == [exc |-> e, reply_type |-> U32(0, 0), data |-> <<>>,
                          rest |-> rest]
    IN  IF reply.exc # "none" THEN Fail(reply.exc, reply.rest)
        ELSE IF ~_assert_protocol(u.ok /\ magic = OPTION_REPLY_MAGIC)
        THEN Fail("NBDProtocolError", reply.rest)
        ELSE IF HasErrorBit(reply_type)
        THEN Fail("NBDOptionError", reply.rest)
        ELSE IF option # c._last_sent_option
        THEN Fail("NBDUnexpectedOptionResponseError", reply.rest)
        ELSE Bind(_recvall(reply.rest, data_length, net), LAMBDA data :
             IF data.exc # "none" THEN Fail(data.exc, data.rest)
             ELSE [exc |-> "none", reply_type |-> reply_type, data |-> data.data,
                   rest |-> data.rest])))

\* _parse_option_reply: [exc, reply_type, data, rest]
_parse_option_reply(c, fields, net) ==
    Bind(_recvall(fields, 8 + 4 + 4 + 4, net), LAMBDA reply :
    Bind(Unpack(reply.data, <<8, 4, 4, 4>>), LAMBDA u :
    LET magic == u.v[1]
        option == u.v[2]
        reply_type == u.v[3]
        data_length == u.v[4]
        Fail(e, rest) == [exc |-> e, reply_type |-> U32(0, 0), data |-> <<>>,
                          rest |-> rest]
    IN  IF reply.exc # "none" THEN Fail(reply.exc, reply.rest)
        ELSE IF ~_assert_protocol(u.ok /\ magic = OPTION_REPLY_MAGIC)
        THEN Fail("NBDProtocolError", reply.rest)
        ELSE IF option # c._last_sent_option
        THEN Fail("NBDUnexpectedOptionResponseError", reply.rest)
        ELSE IF HasErrorBit(reply_type)
        THEN Fail("NBDOptionError", reply.rest)
        ELSE Bind(_recvall(reply.rest, data_length, net), LAMBDA data :
             IF data.exc # "none" THEN Fail(data.exc, data.rest)
             ELSE [exc |-> "none", reply_type |-> reply_type, data |-> data.data,
                   rest |-> data.rest])))

\* _parse_option_reply_ack: [exc, data, rest]
_parse_option_reply_ack_any_type(c, fields, net) ==
    Bind(_parse_option_reply(c, fields, net), LAMBDA r :
         [exc |-> r.exc, data |-> r.data, rest |-> r.rest])

_parse_option_reply_ack(c, fields, net) ==
    Bind(_parse_option_reply(c, fields, net), LAMBDA r :
         IF r.exc = "none" /\ r.reply_type # U32(0, NBD_REP_ACK)
         THEN [exc |-> "NBDProtocolError", data |-> <<>>, rest |-> r.rest]
         ELSE [exc |-> r.exc, data |-> r.data, rest |-> r.rest])

\* _initiate_tls_upgrade: resp is what the server sends once it has the option
_initiate_tls_upgrade(c, fields, resp, net) ==
    LET c1 == _send_option(c, NBD_OPT_STARTTLS)
    IN  Bind(_parse_option_reply_ack(c1, fields \o resp, net), LAMBDA r :
             IF r.exc # "none" THEN Res(r.exc, None, c1, r.rest)
             ELSE IF ~_assert_protocol(StreamLen(r.data) = 0)
             THEN Res("NBDProtocolError", None, c1, r.rest)
             ELSE Res("none", None, c1, r.rest))

\* negotiate_structured_reply(); resp is what the server sends once it has
\* the option
negotiate_structured_reply(c, fields, resp, net) ==
    LET c1 == _send_option(c, NBD_OPT_STRUCTURED_REPLY)
    IN  Bind(_parse_option_reply_ack(c1, fields \o resp, net), LAMBDA r :
             IF r.exc # "none" THEN Res(r.exc, None, c1, r.rest)
             ELSE Res("none", None, [c1 EXCEPT !._structured_reply = TRUE], r.rest))

\* _send_meta_context_option(option, export_name, queries) has a yield in
\* its body, so it is a generator function: the call builds a generator and
\* runs none of the body.  The packing of the data, _send_option and the
\* loop over _parse_meta_context_reply would start at the first next() of
\* the generator
_send_meta_context_option(option) == [started |-> FALSE, option |-> option]

\* a generator that is dropped: if its body never started, nothing was sent
\* and nothing was read; the callers below never start it
Dropped(g, c, fields) == Res("none", None, c, fields)

\* set_meta_contexts(export_name, queries): the generator is built and
\* dropped, the method returns None
set_meta_contexts(c, fields) ==
    Dropped(_send_meta_context_option(NBD_OPT_SET_META_CONTEXT), c, fields)

\* list_meta_contexts(export_name, queries): the generator is built and
\* dropped, and there is no return statement: the method returns None
list_meta_contexts(c, fields) ==
    Dropped(_send_meta_context_option(NBD_OPT_LIST_META_CONTEXT), c, fields)

\* _upgrade_socket_to_tls: self._s becomes the wrapped socket if the TLS
\* handshake and the verification of the certificate succeed
_upgrade_socket_to_tls(c, tls_ok) ==
    IF tls_ok THEN Ok([c EXCEPT !.tls_at = Len(c.sent)])
    ELSE Raise("SSLError", c)
\* bytes == b'...': the bytes received are one whole field spelling the text
BytesEq(data, text) ==
    LET u == Unpack(data, <<8>>) IN u.ok /\ u.v[1] = text

\* _fixed_new_style_handshake(cert, subject, use_tls); resp_tls is what the
\* server sends once it has NBD_OPT_STARTTLS
_fixed_new_style_handshake(c, fields, use_tls, resp_tls, tls_ok, net) ==
    Bind(_recvall(fields, 8, net), LAMBDA m1 :
    IF m1.exc # "none" THEN Res(m1.exc, None, c, m1.rest)
    ELSE IF ~_assert_protocol(BytesEq(m1.data, "NBDMAGIC")) THEN Res("NBDProtocolError", None, c, m1.rest)
    ELSE Bind(_recvall(m1.rest, 8, net), LAMBDA m2 :
    IF m2.exc # "none" THEN Res(m2.exc, None, c, m2.rest)
    ELSE IF ~_assert_protocol(BytesEq(m2.data, "IHAVEOPT")) THEN Res("NBDProtocolError", None, c, m2.rest)
    ELSE Bind(_recvall(m2.rest, 2, net), LAMBDA buf :
    Bind(Unpack(buf.data, <<2>>), LAMBDA u :
    LET c1 == [c EXCEPT !._flags = IF u.ok THEN u.v[1] ELSE 0]
        c2 == [c1 EXCEPT !.sent = Append(c1.sent, <<"flags", NBD_FLAG_C_FIXED_NEWSTYLE>>),
                         !.style = "newstyle"]
    IN  IF buf.exc # "none" THEN Res(buf.exc, None, c, buf.rest)
        ELSE IF ~_assert_protocol(HasBit(c1._flags, NBD_FLAG_HAS_FLAGS))
        THEN Res("NBDProtocolError", None, c1, buf.rest)
        ELSE IF ~use_tls THEN Res("none", None, c2, buf.rest)
        ELSE Bind(_initiate_tls_upgrade(c2, buf.rest, resp_tls, net), LAMBDA t :
             IF t.exc # "none" THEN t
             ELSE Bind(_upgrade_socket_to_tls(t.client, tls_ok), LAMBDA w :
                  Res(w.exc, None, w.val, t.rest)))))))

\* connect(exportname); resp is what the server sends once it has
\* NBD_OPT_EXPORT_NAME
connect(c, fields, resp, net) ==
    LET c1 == _send_option(c, NBD_OPT_EXPORT_NAME)
    IN  Bind(_recvall(fields \o resp, 8, net), LAMBDA buf :
        Bind(Unpack(buf.data, <<8>>), LAMBDA u :
        LET c2 == [c1 EXCEPT !._size = IF u.ok THEN u.v[1] ELSE 0]
        IN  IF buf.exc # "none" THEN Res(buf.exc, None, c1, buf.rest)
            ELSE Bind(_recvall(buf.rest, 2, net), LAMBDA transmission_flags :
            IF transmission_flags.exc # "none"
            THEN Res(transmission_flags.exc, None, c2, transmission_flags.rest)
            ELSE Bind(_recvall(transmission_flags.rest, 124, net), LAMBDA zeroes :
            IF zeroes.exc # "none" THEN Res(zeroes.exc, None, c2, zeroes.rest)
            ELSE Bind(Unpack(transmission_flags.data, <<2>>), LAMBDA t :
                 Res("none", None,
                     [c2 EXCEPT !._transmission_phase = TRUE,
                                !.export_flags = IF t.ok THEN t.v[1] ELSE None],
                     zeroes.rest))))))

\* _old_style_handshake()
_old_style_handshake(c, fields, net) ==
    Bind(_recvall(fields, 8, net), LAMBDA m1 :
    IF m1.exc # "none" THEN Res(m1.exc, None, c, m1.rest)
    ELSE IF ~_assert_protocol(BytesEq(m1.data, "NBDMAGIC")) THEN Res("NBDProtocolError", None, c, m1.rest)
    ELSE Bind(_recvall(m1.rest, 8 + 8 + 4, net), LAMBDA buf :
    Bind(Unpack(buf.data, <<8, 8, 4>>), LAMBDA u :
    LET c1 == IF u.ok THEN [c EXCEPT !._size = u.v[2], !._flags = u.v[3]] ELSE c
    IN  IF buf.exc # "none" THEN Res(buf.exc, None, c, buf.rest)
        ELSE IF ~_assert_protocol(u.ok /\ u.v[1] = OLD_STYLE_MAGIC)
        THEN Res("NBDProtocolError", None, c1, buf.rest)
        ELSE Bind(_recvall(buf.rest, 124, net), LAMBDA zeroes :
             IF zeroes.exc # "none" THEN Res(zeroes.exc, None, c1, zeroes.rest)
             ELSE Res("none", None,
                      [c1 EXCEPT !.style = "oldstyle", !.export_flags = c1._flags],
                      zeroes.rest)))))

\* __init__ with the keyword arguments args = [use_tls, new_style_handshake,
\* connect]; connected tells whether socket.connect succeeds, fields is what
\* the server sends on accepting the connection
__init__(args, connected, fields, resp_tls, tls_ok, resp_export, net) ==
    LET c0 == FreshClient
        c1 == [c0 EXCEPT !._closed = FALSE]
    IN  IF ~connected THEN Res("OSError", None, c0, <<>>)
        ELSE IF args.new_style_handshake
        THEN Bind(_fixed_new_style_handshake(c1, fields, args.use_tls, resp_tls,
                                             tls_ok, net), LAMBDA h :
             IF h.exc = "none" /\ args.connect
             THEN connect(h.client, h.rest, resp_export, net)
             ELSE h)
        ELSE _old_style_handshake(c1, fields, net)

\* ---- the server: what it may send ----
\* a simple reply, followed by payload_len bytes of data
SimpleReply(magic, errno, handle, payload_len) ==
    <<Field(4, magic), Field(4, errno), Field(8, handle)>>
    \o (IF payload_len > 0 THEN <<Field(payload_len, handle)>> ELSE <<>>)

\* what the server may send on a request with the given handle that asks for
\* `length` bytes of data: the reply the protocol prescribes, an error with or
\* without payload, a reply to another request, a frame with a wrong magic,
\* a payload that stops short, or nothing
SimpleReplies(handle, length) ==
    {SimpleReply(NBD_SIMPLE_REPLY_MAGIC, 0, handle, length),
     SimpleReply(NBD_SIMPLE_REPLY_MAGIC, 5, handle, length),
     SimpleReply(NBD_SIMPLE_REPLY_MAGIC, 5, handle, 0),
     SimpleReply(NBD_SIMPLE_REPLY_MAGIC, 0, handle - 1, length),
     SimpleReply(0, 0, handle, length),
     SimpleReply(NBD_SIMPLE_REPLY_MAGIC, 0, handle, length \div 2),
     <<>>}

\* a structured reply chunk with a block status payload of data_length bytes
StructuredChunk(flags, handle, data_length) ==
    <<Field(4, NBD_STRUCTURED_REPLY_MAGIC), Field(2, flags),
      Field(2, NBD_REPLY_TYPE_BLOCK_STATUS), Field(8, handle),
      Field(4, data_length), Field(data_length, handle)>>

\* a structured reply chunk of the type the protocol calls
\* NBD_REPLY_TYPE_ERROR_OFFSET (error bit + 2): errno, an empty message and
\* the 8-byte offset
ErrorOffsetChunk(flags, handle) ==
    <<Field(4, NBD_STRUCTURED_REPLY_MAGIC), Field(2, flags),
      Field(2, 32768 + 2), Field(8, handle), Field(4, 4 + 2 + 8),
      Field(4, 22), Field(2, 0), Field(8, 0)>>

\* what the server may send on a block status request: one final chunk, a
\* chunk and a final chunk, a chunk of another request, an error chunk, or
\* nothing
ChunkReplies(handle) ==
    {StructuredChunk(NBD_REPLY_FLAG_DONE, handle, 12),
     ErrorOffsetChunk(NBD_REPLY_FLAG_DONE, handle),
     StructuredChunk(0, handle, 12) \o StructuredChunk(NBD_REPLY_FLAG_DONE, handle, 12),
     StructuredChunk(NBD_REPLY_FLAG_DONE, handle - 1, 12),
     <<>>}

\* what the server may send on accepting the connection: the newstyle
\* greeting with some handshake flags, NBDMAGIC followed by something else,
\* another magic, the oldstyle greeting, a greeting that stops short, nothing
Greetings ==
    {<<Field(8, "NBDMAGIC"), Field(8, "IHAVEOPT"), Field(2, f)>> : f \in {1, 5, 0}}
    \cup {<<Field(8, "NBDMAGIC"), Field(8, "NOIHAVEO"), Field(2, 1)>>,
          <<Field(8, "NBDMAGIX"), Field(8, "IHAVEOPT"), Field(2, 1)>>,
          <<Field(8, "NBDMAGIC")>>,
          <<>>}
    \cup {<<Field(8, "NBDMAGIC"), Field(8, m), Field(8, 4096), Field(4, f),
            Field(124, 0)>> : m \in {OLD_STYLE_MAGIC, "0000000000000000"},
                              f \in {1, 5}}

\* an option reply with data_length bytes of data
OptionReply(magic, option, reply_type, data_length) ==
    <<Field(8, magic), Field(4, option), Field(4, reply_type), Field(4, data_length)>>
    \o (IF data_length > 0 THEN <<Field(data_length, 0)>> ELSE <<>>)

\* what the server may send on an option: an ACK, an ACK with data, an error
\* without or with a message, a reply of another type, an ACK and an error
\* for another option, a wrong magic, nothing
OptionReplies(option) ==
    {OptionReply(OPTION_REPLY_MAGIC, option, U32(0, NBD_REP_ACK), 0),
     OptionReply(OPTION_REPLY_MAGIC, option, U32(0, NBD_REP_ACK), 4),
     OptionReply(OPTION_REPLY_MAGIC, option, U32(32768, 1), 0),
     OptionReply(OPTION_REPLY_MAGIC, option, U32(32768, 1), 16),
     OptionReply(OPTION_REPLY_MAGIC, option, U32(0, 3), 0),
     OptionReply(OPTION_REPLY_MAGIC, option + 1, U32(0, NBD_REP_ACK), 0),
     OptionReply(OPTION_REPLY_MAGIC, option + 1, U32(32768, 1), 0),
     OptionReply("0000000000000000", option, U32(0, NBD_REP_ACK), 0),
     <<>>}

\* what the server may send on NBD_OPT_EXPORT_NAME: size, transmission flags
\* and 124 zero bytes, a part of that, or nothing
ExportReplies ==
    {<<Field(8, 4096), Field(2, f), Field(124, 0)>> : f \in {1, 5}}
    \cup {<<Field(8, 4096)>>, <<>>}

\* the bytes arrive in pieces and the peer closes the connection after them,
\* or they arrive at once and the peer keeps the connection open
Nets == {Net(200, TRUE), Net(65536, FALSE)}

\* arguments <<offset, length>> of read, write and query_block_status:
\* aligned, offset not aligned, length not aligned
Ranges == {<<0, 1024>>, <<100, 1024>>, <<512, 1000>>}

\* ---- calls on one client ----
\* the calls explored on one client: first connect and
\* negotiate_structured_reply, each at most MaxOptions times (the
\* NBD_OPT_EXPORT_NAME of the constructor included), then MaxOps other calls
MaxOps == 3

MaxOptions == 1

NoGen == [state |-> "none", handle |-> 0,
          reply |-> [flags |-> 0, reply_type |-> 0, data_length |-> 0, handle |-> 0]]

NoCall ==
    [op |-> "none", offset |-> 0, length |-> 0, exc |-> "none", val |-> None,
     data |-> [length |-> 0, data |-> <<>>, handle |-> 0], chunk |-> NoGen.reply,
     before |-> FreshClient, unread |-> <<>>, resp |-> <<>>, net |-> Net(0, FALSE),
     pending |-> {}, gen |-> NoGen]

\* the record of a call: the client, the unread bytes, the outstanding
\* requests and the generator before it, its arguments and its outcome (the exception raised,
\* and the value returned: in data the bytearray read returned, in chunk the
\* fields next(gen) returned, in val any other value); what the server sent
\* (resp) is kept only if the call sent something, for the server sends
\* nothing on a request it never got; net is kept for a read that sent its
\* request
Call(op, offset, length, r, resp, net) ==
    [op |-> op, offset |-> offset, length |-> length, exc |-> r.exc,
     val |-> IF r.exc = "none" /\ op \in {"read", "next"} THEN None ELSE r.val,
     data |-> IF r.exc = "none" /\ op = "read" THEN r.val ELSE NoCall.data,
     chunk |-> IF r.exc = "none" /\ op = "next" THEN r.val ELSE NoCall.chunk,
     before |-> client, unread |-> wire_in,
     resp |-> IF Len(r.client.sent) > Len(client.sent) THEN resp ELSE <<>>,
     net |-> IF op = "read" /\ Len(r.client.sent) > Len(client.sent)
             THEN net ELSE Net(0, FALSE),
     pending |-> outstanding, gen |-> gen]

\* client = PythonNbdClient(address, use_tls=..., new_style_handshake=...,
\*                          connect=...)
Construct ==
    /\ nbd_pc = "new"
    /\ \E connected \in BOOLEAN, fields \in Greetings, tls_ok \in BOOLEAN,
          resp_tls \in OptionReplies(NBD_OPT_STARTTLS),
          resp_export \in ExportReplies, net \in Nets :
       \E r \in {__init__(ctor_args, connected, fields, resp_tls, tls_ok,
                          resp_export, net)} :
          LET sent_tls == \E i \in 1..Len(r.client.sent) :
                              r.client.sent[i] = <<"option", NBD_OPT_STARTTLS>>
          IN  /\ nbd_pc' = IF r.exc = "none" THEN "open" ELSE "failed"
              /\ client' = r.client
              /\ wire_in' = r.rest
              /\ last_call' = [NoCall EXCEPT !.op = "__init__", !.exc = r.exc,
                                             !.unread = IF connected THEN fields ELSE <<>>,
                                             !.resp = IF sent_tls THEN resp_tls ELSE <<>>]
    /\ UNCHANGED <<ctor_args, gen, outstanding, ops_done>>

Callable == nbd_pc = "open" /\ ops_done < MaxOps

\* the exceptions of _recvall: the peer has closed the connection, or sent
\* nothing within the socket's timeout
ConnectionLost == {"NBDEOFError", "timeout"}

\* the caller's position after a call: once a call has raised one of
\* ConnectionLost the caller gives the client up, and only closes it
After(exc) == IF exc \in ConnectionLost THEN "lost" ELSE nbd_pc

\* how often the client has sent the option
TimesSent(c, option) ==
    Cardinality({i \in 1..Len(c.sent) : c.sent[i] = <<"option", option>>})

\* a method valid only during the handshake phase, which sends the option,
\* can be called: no other method has been called yet
Haggling(option) ==
    /\ nbd_pc = "open" /\ ops_done = 0
    /\ client.style = "newstyle" /\ ~client._transmission_phase
    /\ TimesSent(client, option) < MaxOptions

\* client.connect(exportname)
Connect ==
    /\ Haggling(NBD_OPT_EXPORT_NAME)
    /\ \E resp \in ExportReplies, net \in Nets :
       \E r \in {connect(client, wire_in, resp, net)} :
          /\ client' = r.client
          /\ wire_in' = r.rest
          /\ nbd_pc' = After(r.exc)
          /\ last_call' = Call("connect", 0, 0, r, resp, net)
    /\ UNCHANGED <<ctor_args, gen, outstanding, ops_done>>

\* client.negotiate_structured_reply()
NegotiateStructuredReply ==
    /\ Haggling(NBD_OPT_STRUCTURED_REPLY)
    /\ \E resp \in OptionReplies(NBD_OPT_STRUCTURED_REPLY), net \in Nets :
       \E r \in {negotiate_structured_reply(client, wire_in, resp, net)} :
          /\ client' = r.client
          /\ wire_in' = r.rest
          /\ nbd_pc' = After(r.exc)
          /\ last_call' = Call("negotiate_structured_reply", 0, 0, r, resp, net)
    /\ UNCHANGED <<ctor_args, gen, outstanding, ops_done>>

\* client.set_meta_contexts(export_name, queries)
SetMetaContexts ==
    /\ Haggling(NBD_OPT_SET_META_CONTEXT)
    /\ \E r \in {set_meta_contexts(client, wire_in)} :
          /\ client' = r.client
          /\ wire_in' = r.rest
          /\ nbd_pc' = After(r.exc)
          /\ last_call' = Call("set_meta_contexts", 0, 0, r, <<>>, Net(0, FALSE))
    /\ UNCHANGED <<ctor_args, gen, outstanding, ops_done>>

\* client.list_meta_contexts(export_name, queries)
ListMetaContexts ==
    /\ Haggling(NBD_OPT_LIST_META_CONTEXT)
    /\ \E r \in {list_meta_contexts(client, wire_in)} :
          /\ client' = r.client
          /\ wire_in' = r.rest
          /\ nbd_pc' = After(r.exc)
          /\ last_call' = Call("list_meta_contexts", 0, 0, r, <<>>, Net(0, FALSE))
    /\ UNCHANGED <<ctor_args, gen, outstanding, ops_done>>

\* client.read(offset, length)
Read ==
    /\ Callable
    /\ \E range \in Ranges, net \in Nets :
       \E resp \in SimpleReplies(client._handle + 1, range[2]) :
       \E r \in {read(client, wire_in, range[1], range[2], resp, net)} :
          /\ client' = r.client
          /\ wire_in' = r.rest
          /\ nbd_pc' = After(r.exc)
          /\ last_call' = Call("read", range[1], range[2], r, resp, net)
    /\ ops_done' = ops_done + 1
    /\ UNCHANGED <<ctor_args, gen, outstanding>>

\* client.write(data, offset) with len(data) = length
Write ==
    /\ Callable
    /\ \E range \in Ranges, net \in Nets :
       \E resp \in SimpleReplies(client._handle + 1, 0) :
       \E r \in {write(client, wire_in, range[2], range[1], resp, net)} :
          /\ client' = r.client
          /\ wire_in' = r.rest
          /\ nbd_pc' = After(r.exc)
          /\ last_call' = Call("write", range[1], range[2], r, resp, net)
    /\ ops_done' = ops_done + 1
    /\ UNCHANGED <<ctor_args, gen, outstanding>>

\* client.flush()
Flush ==
    /\ Callable
    /\ \E resp \in SimpleReplies(client._handle + 1, 0), net \in Nets :
       \E r \in {flush(client, wire_in, resp, net)} :
          /\ client' = r.client
          /\ wire_in' = r.rest
          /\ nbd_pc' = After(r.exc)
          /\ last_call' = Call("flush", 0, 0, r, resp, net)
    /\ ops_done' = ops_done + 1
    /\ UNCHANGED <<ctor_args, gen, outstanding>>

\* gen = client.query_block_status(offset, length)
QueryBlockStatus ==
    /\ Callable
    /\ \E range \in {<<0, 1024>>} :
       \E resp \in ChunkReplies(client._handle + 1) :
       \E c \in {query_block_status(client, range[1], range[2])} :
          /\ client' = c
          /\ wire_in' = wire_in \o resp
          /\ gen' = [NoGen EXCEPT !.state = "created", !.handle = c._handle]
          /\ last_call' = Call("query_block_status", range[1], range[2],
                               Res("none", None, c, wire_in), resp, Net(0, FALSE))
          /\ outstanding' = outstanding \cup {c._handle}
    /\ ops_done' = ops_done + 1
    /\ UNCHANGED <<nbd_pc, ctor_args>>

\* next(gen)
NextChunk ==
    /\ Callable
    /\ gen.state \in {"created", "suspended"}
    /\ \E net \in Nets :
       \E r \in {GenNext(client, wire_in, gen, net)} :
          /\ wire_in' = r.rest
          /\ nbd_pc' = After(r.exc)
          /\ gen' = r.gen
          /\ last_call' = Call("next", 0, 0, Res(r.exc, r.val, client, r.rest), <<>>, net)
          /\ outstanding' = IF r.exc = "none" /\ ~HasBit(r.val.flags, NBD_REPLY_FLAG_DONE)
                            THEN outstanding
                            ELSE outstanding \ {gen.handle}
    /\ ops_done' = ops_done + 1
    /\ UNCHANGED <<ctor_args, client>>

\* client.close(), or client.__exit__(...) at the end of a with block
Close ==
    /\ nbd_pc \in {"open", "lost"} /\ ops_done < MaxOps
    /\ \E op \in {"close", "__exit__"}, net \in Nets :
       \E resp \in SimpleReplies(client._handle + 1, 0) :
       \E r \in {close(client, wire_in, resp, net)} :
          /\ client' = r.client
          /\ wire_in' = r.rest
          /\ nbd_pc' = After(r.exc)
          /\ last_call' = Call(op, 0, 0, r, resp, net)
    /\ ops_done' = ops_done + 1
    /\ UNCHANGED <<ctor_args, gen, outstanding>>

\* ---------------------------------------------------------------------------
\* nbd_networks.py (xapi_nbd_networks.py and xapi_nbd.py hold the same
\* auto_enable_nbd)
\* ---------------------------------------------------------------------------
NumNetworks == 3

\* session.xenapi.network.get_all()
networks == 1..NumNetworks

\* the purposes auto_enable_nbd deals with
NbdPurposes == {"nbd", "insecure_nbd"}

nbd_purpose(use_tls) == IF use_tls THEN "nbd" ELSE "insecure_nbd"

conflicting_nbd_purpose(use_tls) == IF use_tls THEN "insecure_nbd" ELSE "nbd"

\* has_vlan_pif(session, network)
has_vlan_pif(network) == vlan_master[network]

\* the first loop of auto_enable_nbd: one iteration, or its end
AutoEnableScan ==
    /\ net_pc = "scan"
    /\ IF net_i > NumNetworks
       THEN /\ net_pc' = "enable"
            /\ net_i' = 1
            /\ UNCHANGED purpose
       ELSE IF nbd_purpose(net_args.use_tls) \in purpose[net_i]
       THEN /\ net_pc' = "returned"
            /\ UNCHANGED <<net_i, purpose>>
       ELSE /\ purpose' =
                  IF conflicting_nbd_purpose(net_args.use_tls) \in purpose[net_i]
                  THEN [purpose EXCEPT ![net_i] =
                            @ \ {conflicting_nbd_purpose(net_args.use_tls)}]
                  ELSE purpose
            /\ net_i' = net_i + 1
            /\ UNCHANGED net_pc
    /\ UNCHANGED <<net_args, vlan_master, purpose_at_call>>

\* the second loop of auto_enable_nbd: one iteration, or its end
AutoEnableAdd ==
    /\ net_pc = "enable"
    /\ IF net_i > NumNetworks
       THEN /\ net_pc' = "wait"
            /\ UNCHANGED <<net_i, purpose>>
       ELSE /\ purpose' =
                  IF ~(net_args.skip_vlans /\ has_vlan_pif(net_i))
                  THEN [purpose EXCEPT ![net_i] =
                            @ \cup {nbd_purpose(net_args.use_tls)}]
                  ELSE purpose
            /\ net_i' = net_i + 1
            /\ UNCHANGED net_pc
    /\ UNCHANGED <<net_args, vlan_master, purpose_at_call>>

\* wait_after_nbd_network_changes(), and the return of auto_enable_nbd
AutoEnableWait ==
    /\ net_pc = "wait"
    /\ net_pc' = "returned"
    /\ UNCHANGED <<net_args, net_i, purpose, vlan_master, purpose_at_call>>

IdleNetworks ==
    /\ net_pc = "off"
    /\ net_args = [use_tls |-> FALSE, skip_vlans |-> FALSE]
    /\ net_i = 0
    /\ purpose = <<>>
    /\ vlan_master = <<>>
    /\ purpose_at_call = <<>>

IdleNbd ==
    /\ nbd_pc = "off"
    /\ ctor_args = [use_tls |-> FALSE, new_style_handshake |-> FALSE, connect |-> FALSE]
    /\ client = FreshClient
    /\ wire_in = <<>>
    /\ gen = NoGen
    /\ outstanding = {}
    /\ last_call = NoCall
    /\ ops_done = 0

\* ---------------------------------------------------------------------------
\* SpecBitmap: one CbtBitmap object, one get_extents call consumed as a list
\* ---------------------------------------------------------------------------
IdleBitmap ==
    /\ bitmap = <<>>
    /\ bm_pc = "off"
    /\ extents = Ok(<<>>)
    /\ statistics = NoStatistics

IdleExtents ==
    /\ ext_pc = "off"
    /\ ext_args = [extents |-> <<>>, block_size |-> 0, output_mode |-> "closed"]
    /\ merged = Ok(<<>>)
    /\ reads = <<>>
    /\ ext_file = NoFile
    /\ ext_exc = "none"

IdleDownload ==
    /\ dl_op = "off"
    /\ dl_pc = "off"
    /\ dl_exc = "none"
    /\ export_size = 0
    /\ block_size = 0
    /\ dl_bitmap = <<>>
    /\ base_file = NoFile
    /\ out_file = NoFile
    /\ todo = <<>>
    /\ lazy_exc = "none"
    /\ current_offset = None
    /\ output_mode = "closed"
    /\ nbd_client = NoClient

IdleBackup ==
    /\ cbt_enabled = <<>>
    /\ sr_allowed_operations = <<>>
    /\ prior = <<>>
    /\ vm_snapshot = "none"
    /\ snap_vdi = <<>>
    /\ snap_cbt = <<>>
    /\ calls = <<>>
    /\ bk_pc = "off"
    /\ bk_exc = "none"
    /\ failed_step = "none"
    /\ vdi_i = 0
    /\ latest_backup = None
    /\ vdi_status = <<>>
    /\ bk_raised = "none"
    /\ bdir = [exists |-> FALSE, files |-> {}]
    /\ vm_dir = <<>>
    /\ timestamp = None

InitBitmap ==
    /\ pep479 \in BOOLEAN
    /\ IdleNetworks
    /\ bitmap \in Bitmaps
    /\ bm_pc = "new"
    /\ extents = Ok(<<>>)
    /\ statistics = NoStatistics
    /\ IdleExtents
    /\ IdleDownload
    /\ IdleBackup
    /\ IdleNbd

GetExtentsPlain ==
    /\ bm_pc = "new"
    /\ extents' = get_extents(bitmap, <<FALSE>>)
    /\ bm_pc' = "plain"
    /\ UNCHANGED <<nbdVars, pep479, netVars, bitmap, statistics, extVars, downloadVars, serverVars, backupVars>>

GetExtentsMerged ==
    /\ bm_pc = "new"
    /\ extents' = get_extents(bitmap, <<TRUE>>)
    /\ bm_pc' = "merged"
    /\ UNCHANGED <<nbdVars, pep479, netVars, bitmap, statistics, extVars, downloadVars, serverVars, backupVars>>

GetStatistics ==
    /\ bm_pc = "new"
    /\ statistics' = get_statistics(bitmap)
    /\ bm_pc' = "stats"
    /\ UNCHANGED <<nbdVars, pep479, netVars, bitmap, extents, extVars, downloadVars, serverVars, backupVars>>

NextBitmap == GetExtentsPlain \/ GetExtentsMerged \/ GetStatistics

SpecBitmap == InitBitmap /\ [][NextBitmap]_vars

\* ---------------------------------------------------------------------------
\* extent_writers.py
\* ---------------------------------------------------------------------------
\* list(merge_adjacent_extents(iter(extents))): the same text as
\* _merge_adjacent_extents of cbt_bitmap.py
merge_adjacent_extents(exts) ==
    IF exts = <<>>
    THEN IF pep479 THEN Raise("RuntimeError", <<>>) ELSE Ok(<<>>)
    ELSE Ok(MergeLoop(Tail(exts), Head(exts), <<>>))

\* list(range(start, stop, step)) for step > 0
PyRange(start, stop, step) ==
    [i \in 1..(IF stop > start THEN (stop - start + step - 1) \div step ELSE 0)
        |-> start + (i - 1) * step]

\* the state of a running write_extents: the local `length` of _write_extent,
\* the calls made to nbd_client.read, the output file's content and the
\* position of the open file object, the exception in flight, the client
WriterState(segs) ==
    [length |-> 0, reads |-> <<>>, segs |-> segs, pos |-> 0, exc |-> "none",
     client |-> NewClient(0)]

\* out.write(data) on the open file: 'r+b' writes at the position, 'ab' at
\* the end of the file; no seek is made
OutWrite(st, mode, data) ==
    IF mode = "ab"
    THEN WriteAppend(st.segs, st.pos, data)
    ELSE WriteAt(st.segs, st.pos, data)

\* the for loop of _write_extent over the values of the range not yet taken
RECURSIVE WriteExtentLoop(_, _, _, _)
WriteExtentLoop(offsets, st, bs, mode) ==
    IF offsets = <<>> \/ st.exc # "none"
    THEN st
    ELSE LET cur == Head(offsets)
             length == Min(bs, st.length - cur)
             r == nbd_read(st.client, cur, length)
             called == [st EXCEPT !.length = length,
                                  !.reads = Append(st.reads, <<cur, length>>),
                                  !.client = r.client]
         IN  IF r.exc # "none"
             THEN [called EXCEPT !.exc = r.exc]
             ELSE WriteExtentLoop(Tail(offsets),
                                  [called EXCEPT !.segs = OutWrite(st, mode, r.val),
                                                 !.pos = st.pos + r.val.len],
                                  bs, mode)

\* PythonWriter._write_extent: the range is built from the extent's offset and
\* its length, then `length` is rebound in every iteration
_write_extent(st, extent, bs, mode) ==
    WriteExtentLoop(PyRange(extent[1], extent[2], bs),
                    [st EXCEPT !.length = extent[2]], bs, mode)

\* the for loop of write_extents over the extents not yet written
RECURSIVE WriteExtentsLoop(_, _, _, _)
WriteExtentsLoop(exts, st, bs, mode) ==
    IF exts = <<>> \/ st.exc # "none"
    THEN st
    ELSE WriteExtentsLoop(Tail(exts),
                          _write_extent(st, Head(exts), bs, mode),
                          bs, mode)

\* PythonWriter(nbd_client).write_extents(extents, out_file, block_size,
\* output_mode), output_mode being the mode string: 'r+b' needs the file to
\* exist, 'ab' creates it
write_extents(args, file) ==
    IF args.output_mode = "r+b" /\ ~file.exists
    THEN [WriterState(file.segs) EXCEPT !.exc = "FileNotFoundError"]
    ELSE WriteExtentsLoop(args.extents, WriterState(file.segs),
                          args.block_size, args.output_mode)

\* ---------------------------------------------------------------------------
\* SpecExtents: one call of _merge_adjacent_extents, of merge_adjacent_extents
\* or of PythonWriter.write_extents on an increasingly ordered sequence of
\* non-overlapping extents
\* ---------------------------------------------------------------------------
MaxExtents == 3

\* number of 64 KiB blocks of the disk the extents lie on
MaxGrid == 5

GridExtents ==
    {<<a * BLOCK_SIZE, l * BLOCK_SIZE>> :
        a \in 0..(MaxGrid - 1), l \in 1..MaxGrid} \cap
    {<<a * BLOCK_SIZE, (e - a) * BLOCK_SIZE>> :
        a \in 0..(MaxGrid - 1), e \in 1..MaxGrid}

\* increasingly ordered, non-overlapping, inside the disk; consecutive
\* extents may touch
Ordered(exts) ==
    /\ \A j \in 1..Len(exts) : exts[j][1] + exts[j][2] <= MaxGrid * BLOCK_SIZE
    /\ \A j \in 1..(Len(exts) - 1) : exts[j][1] + exts[j][2] <= exts[j + 1][1]

ExtentSeqs == {exts \in SeqsUpTo(GridExtents, MaxExtents) : Ordered(exts)}

ExtBlockSizes == {BLOCK_SIZE, 2 * BLOCK_SIZE}

InitExtents ==
    /\ pep479 \in BOOLEAN
    /\ IdleNetworks
    /\ IdleBitmap
    /\ ext_pc = "new"
    /\ ext_args \in [extents : ExtentSeqs, block_size : ExtBlockSizes,
                      output_mode : {"r+b", "ab"}]
    /\ merged = Ok(<<>>)
    /\ reads = <<>>
    /\ ext_file \in {NoFile,
                      [exists |-> TRUE,
                       segs |-> <<Seg("base", 0, MaxGrid * BLOCK_SIZE)>>]}
    /\ ext_exc = "none"
    /\ IdleDownload
    /\ IdleBackup
    /\ IdleNbd

MergeCbt ==
    /\ ext_pc = "new"
    /\ merged' = _merge_adjacent_extents(ext_args.extents)
    /\ ext_pc' = "merged_cbt"
    /\ UNCHANGED <<ext_args, reads, ext_file, ext_exc>>

MergeAdjacentExtents ==
    /\ ext_pc = "new"
    /\ merged' = merge_adjacent_extents(ext_args.extents)
    /\ ext_pc' = "merged"
    /\ UNCHANGED <<ext_args, reads, ext_file, ext_exc>>

WriteExtents ==
    /\ ext_pc = "new"
    /\ \E st \in {write_extents(ext_args, ext_file)} :
          /\ reads' = st.reads
          /\ ext_file' = [exists |-> ext_file.exists \/ ext_args.output_mode = "ab",
                          segs |-> st.segs]
          /\ ext_exc' = st.exc
    /\ ext_pc' = "written"
    /\ UNCHANGED <<ext_args, merged>>

NextExtents ==
    \/ (MergeCbt /\ UNCHANGED <<nbdVars, pep479, netVars, bitmapVars, downloadVars, serverVars, backupVars>>)
    \/ (MergeAdjacentExtents /\ UNCHANGED <<nbdVars, pep479, netVars, bitmapVars, downloadVars, serverVars, backupVars>>)
    \/ (WriteExtents /\ UNCHANGED <<nbdVars, pep479, netVars, bitmapVars, downloadVars, serverVars, backupVars>>)

SpecExtents == InitExtents /\ [][NextExtents]_vars

\* ---------------------------------------------------------------------------
\* SpecDownload: one call of VdiDownloader.full_vdi_backup into a fresh file
\* or of VdiDownloader.incremental_vdi_backup, against a server that serves
\* the export without errors
\* ---------------------------------------------------------------------------
MaxFullBlocks == 2

\* export sizes: whole blocks plus nothing, one sector, a part of a sector,
\* or 4,000,000 bytes
Remainders == {0, 512, 1000, 4000000}

\* 4 MiB is the block size BackupConfig gives its VdiDownloader
BlockSizes == {4 * 1024 * 1024, 64 * 1024}

FullSizes(bs) == {k * bs + r : k \in 0..MaxFullBlocks, r \in Remainders}

\* disk sizes a bitmap can belong to: whole 64 KiB blocks, one bit per block,
\* the bitmap padded with clear bits to a byte boundary
DiskSizes(b) ==
    {n * BLOCK_SIZE : n \in {m \in 0..BitLen(b) :
                                /\ m > BitLen(b) - 8
                                /\ \A k \in OneBits(b) : k < m}}

InitDownload ==
    /\ pep479 \in BOOLEAN
    /\ IdleNetworks
    /\ IdleBitmap
    /\ IdleExtents
    /\ dl_op \in {"full", "incremental"}
    /\ dl_pc = "start"
    /\ dl_exc = "none"
    /\ block_size \in BlockSizes
    /\ dl_bitmap \in (IF dl_op = "full" THEN {<<>>} ELSE Bitmaps)
    /\ export_size \in (IF dl_op = "full" THEN FullSizes(block_size)
                                          ELSE DiskSizes(dl_bitmap))
    /\ base_file = IF dl_op = "full"
                   THEN NoFile
                   ELSE [exists |-> TRUE,
                         segs |-> Normalize(<<Seg("base", 0, export_size)>>)]
    /\ out_file = NoFile
    /\ todo = <<>>
    /\ lazy_exc = "none"
    /\ current_offset = None
    /\ output_mode = "closed"
    /\ nbd_client = NoClient
    /\ IdleBackup
    /\ IdleNbd

NextDownload ==
    \/ (FullGetNbdInfo /\ UNCHANGED <<nbdVars, pep479, netVars, bitmapVars, extVars, serverVars, backupVars>>)
    \/ (IncrementalCopyBase /\ UNCHANGED <<nbdVars, pep479, netVars, bitmapVars, extVars, serverVars, backupVars>>)
    \/ (DownloadChangedBlocks /\ UNCHANGED <<nbdVars, pep479, netVars, bitmapVars, extVars, serverVars, backupVars>>)
    \/ (OpenClient /\ UNCHANGED <<nbdVars, pep479, netVars, bitmapVars, extVars, serverVars, backupVars>>)
    \/ (OpenOutput /\ UNCHANGED <<nbdVars, pep479, netVars, bitmapVars, extVars, serverVars, backupVars>>)
    \/ (LoopDone /\ UNCHANGED <<nbdVars, pep479, netVars, bitmapVars, extVars, serverVars, backupVars>>)
    \/ (NextExtent /\ UNCHANGED <<nbdVars, pep479, netVars, bitmapVars, extVars, serverVars, backupVars>>)
    \/ (DownloadBlock /\ UNCHANGED <<nbdVars, pep479, netVars, bitmapVars, extVars, serverVars, backupVars>>)
    \/ (ExitClient /\ UNCHANGED <<nbdVars, pep479, netVars, bitmapVars, extVars, serverVars, backupVars>>)

SpecDownload == InitDownload /\ [][NextDownload]_vars

\* SpecDownloadFaulty: the same calls against a server and a file system that
\* may fail at any block, on a host that may lack the cp command
NextDownloadFaulty ==
    \/ NextDownload
    \/ (DownloadBlockFails /\ UNCHANGED <<nbdVars, pep479, netVars, bitmapVars, extVars, serverVars, backupVars>>)
    \/ (IncrementalCopyBaseNoCp /\ UNCHANGED <<nbdVars, pep479, netVars, bitmapVars, extVars, serverVars, backupVars>>)

SpecDownloadFaulty == InitDownload /\ [][NextDownloadFaulty]_vars

\* ---------------------------------------------------------------------------
\* SpecNbdExtents: one call of VdiDownloader._download_nbd_extents inside the
\* with statement of its client, on an increasingly ordered sequence of
\* non-overlapping extents, into a missing file or a copy of the base file
\* ---------------------------------------------------------------------------
\* extents of a part of a sector, as the single extent (0, size) of
\* _download_vdi is when the export's size is not a multiple of 512
SectorParts == {<<a * BLOCK_SIZE, 1000>> : a \in 0..(MaxGrid - 1)}

AnyExtentSeqs ==
    {exts \in SeqsUpTo(GridExtents \cup SectorParts, MaxExtents) : Ordered(exts)}

InitNbdExtents ==
    /\ pep479 = TRUE
    /\ IdleNetworks
    /\ IdleBitmap
    /\ ext_pc = "off"
    /\ ext_args \in [extents : AnyExtentSeqs, block_size : ExtBlockSizes,
                      output_mode : {"OVERWRITE", "APPEND"}]
    /\ merged = Ok(<<>>)
    /\ reads = <<>>
    /\ ext_file = NoFile
    /\ ext_exc = "none"
    /\ dl_op = "extents"
    /\ dl_pc = "client"
    /\ dl_exc = "none"
    /\ export_size = MaxGrid * BLOCK_SIZE
    /\ block_size = ext_args.block_size
    /\ dl_bitmap = <<>>
    /\ base_file = [exists |-> TRUE, segs |-> <<Seg("base", 0, export_size)>>]
    /\ out_file \in {NoFile, base_file}
    /\ todo = ext_args.extents
    /\ lazy_exc = "none"
    /\ current_offset = None
    /\ output_mode = "closed"
    /\ nbd_client = NewClient(export_size)
    /\ IdleBackup
    /\ IdleNbd

NextNbdExtents ==
    \/ (OpenOutput /\ UNCHANGED <<nbdVars, pep479, netVars, bitmapVars, extVars, serverVars, backupVars>>)
    \/ (LoopDone /\ UNCHANGED <<nbdVars, pep479, netVars, bitmapVars, extVars, serverVars, backupVars>>)
    \/ (NextExtent /\ UNCHANGED <<nbdVars, pep479, netVars, bitmapVars, extVars, serverVars, backupVars>>)
    \/ (DownloadBlock /\ UNCHANGED <<nbdVars, pep479, netVars, bitmapVars, extVars, serverVars, backupVars>>)
    \/ (ExitClient /\ UNCHANGED <<nbdVars, pep479, netVars, bitmapVars, extVars, serverVars, backupVars>>)

SpecNbdExtents == InitNbdExtents /\ [][NextNbdExtents]_vars

\* ---------------------------------------------------------------------------
\* SpecBackup: one call of BackupConfig.backup for a VM with NumVdis VDIs.
\* Every call to the server and every download may fail.
\* ---------------------------------------------------------------------------
\* disk sizes: eight whole blocks, or one block and a part of a sector
BackupSizes == {8 * BLOCK_SIZE, BLOCK_SIZE + 1000}

InitBackup ==
    /\ pep479 = TRUE
    /\ IdleNetworks
    /\ IdleBitmap
    /\ IdleExtents
    /\ dl_op = "off"
    /\ dl_pc = "off"
    /\ dl_exc = "none"
    /\ export_size \in BackupSizes
    /\ block_size = 4 * 1024 * 1024
    /\ dl_bitmap = <<>>
    /\ base_file = NoFile
    /\ out_file = NoFile
    /\ todo = <<>>
    /\ lazy_exc = "none"
    /\ current_offset = None
    /\ output_mode = "closed"
    /\ nbd_client = NoClient
    /\ sr_allowed_operations \in [Vdis -> AllowedOperations]
    /\ cbt_enabled \in {enabled \in [Vdis -> BOOLEAN] :
                           \A v \in Vdis :
                               enabled[v] => vdi_supports_cbt(sr_allowed_operations[v])}
    /\ prior = <<>>
    /\ vm_snapshot = "none"
    /\ snap_vdi = [v \in Vdis |-> "none"]
    /\ snap_cbt = [v \in Vdis |-> FALSE]
    /\ calls = <<>>
    /\ bk_pc = "start"
    /\ bk_exc = "none"
    /\ failed_step = "none"
    /\ vdi_i = 0
    /\ latest_backup = None
    /\ vdi_status = [v \in Vdis |-> "none"]
    /\ bk_raised = "none"
    /\ bdir = [exists |-> FALSE, files |-> {}]
    /\ vm_dir \in [Timestamps -> {NoDir, CompletedBackup}]
    /\ timestamp = None
    /\ IdleNbd

NextBackup ==
    \/ (BackupStart /\ UNCHANGED <<nbdVars, pep479, netVars, bitmapVars, extVars>>)
    \/ (EnableCbt /\ UNCHANGED <<nbdVars, pep479, netVars, bitmapVars, extVars, vm_dir, timestamp>>)
    \/ (SnapshotVm /\ UNCHANGED <<nbdVars, pep479, netVars, bitmapVars, extVars, vm_dir, timestamp>>)
    \/ (SaveVmMetadata /\ UNCHANGED <<nbdVars, pep479, netVars, bitmapVars, extVars, vm_dir, timestamp>>)
    \/ (VdiLookup /\ UNCHANGED <<nbdVars, pep479, netVars, bitmapVars, extVars, vm_dir, timestamp>>)
    \/ (VdiBackupCall /\ UNCHANGED <<nbdVars, pep479, netVars, bitmapVars, extVars, vm_dir, timestamp>>)
    \/ (FullGetNbdInfo /\ UNCHANGED <<nbdVars, pep479, netVars, bitmapVars, extVars, serverVars, backupVars>>)
    \/ (IncrementalCopyBase /\ UNCHANGED <<nbdVars, pep479, netVars, bitmapVars, extVars, serverVars, backupVars>>)
    \/ (DownloadChangedBlocks /\ UNCHANGED <<nbdVars, pep479, netVars, bitmapVars, extVars, serverVars, backupVars>>)
    \/ (OpenClient /\ UNCHANGED <<nbdVars, pep479, netVars, bitmapVars, extVars, serverVars, backupVars>>)
    \/ (OpenClientFails /\ UNCHANGED <<nbdVars, pep479, netVars, bitmapVars, extVars, serverVars, backupVars>>)
    \/ (OpenOutput /\ UNCHANGED <<nbdVars, pep479, netVars, bitmapVars, extVars, serverVars, backupVars>>)
    \/ (LoopDone /\ UNCHANGED <<nbdVars, pep479, netVars, bitmapVars, extVars, serverVars, backupVars>>)
    \/ (NextExtent /\ UNCHANGED <<nbdVars, pep479, netVars, bitmapVars, extVars, serverVars, backupVars>>)
    \/ (DownloadBlock /\ UNCHANGED <<nbdVars, pep479, netVars, bitmapVars, extVars, serverVars, backupVars>>)
    \/ (ExitClient /\ UNCHANGED <<nbdVars, pep479, netVars, bitmapVars, extVars, serverVars, backupVars>>)
    \/ (VdiBackupDownloaded /\ UNCHANGED <<nbdVars, pep479, netVars, bitmapVars, extVars, vm_dir, timestamp>>)
    \/ (VdiCompareChecksums /\ UNCHANGED <<nbdVars, pep479, netVars, bitmapVars, extVars, vm_dir, timestamp>>)
    \/ (VmDestroy /\ UNCHANGED <<nbdVars, pep479, netVars, bitmapVars, extVars, vm_dir, timestamp>>)
    \/ (VdiCleanup /\ UNCHANGED <<nbdVars, pep479, netVars, bitmapVars, extVars, vm_dir, timestamp>>)
    \/ (BackupExcept /\ UNCHANGED <<nbdVars, pep479, netVars, bitmapVars, extVars, vm_dir, timestamp>>)

SpecBackup == InitBackup /\ [][NextBackup]_vars

\* ---------------------------------------------------------------------------
\* SpecNbd: one PythonNbdClient is constructed against a server that may send
\* anything the reply sets above hold, then up to MaxOps calls are made on it
\* ---------------------------------------------------------------------------
InitNbd ==
    /\ pep479 = TRUE
    /\ IdleNetworks
    /\ IdleBitmap
    /\ IdleExtents
    /\ IdleDownload
    /\ IdleBackup
    /\ nbd_pc = "new"
    /\ ctor_args \in [use_tls : BOOLEAN, new_style_handshake : BOOLEAN,
                      connect : BOOLEAN]
    /\ client = FreshClient
    /\ wire_in = <<>>
    /\ gen = NoGen
    /\ outstanding = {}
    /\ last_call = NoCall
    /\ ops_done = 0

NextNbd ==
    \/ (Construct /\ UNCHANGED <<pep479, netVars, bitmapVars, extVars, downloadVars, serverVars, backupVars>>)
    \/ (Connect /\ UNCHANGED <<pep479, netVars, bitmapVars, extVars, downloadVars, serverVars, backupVars>>)
    \/ (NegotiateStructuredReply /\ UNCHANGED <<pep479, netVars, bitmapVars, extVars, downloadVars, serverVars, backupVars>>)
    \/ (SetMetaContexts /\ UNCHANGED <<pep479, netVars, bitmapVars, extVars, downloadVars, serverVars, backupVars>>)
    \/ (ListMetaContexts /\ UNCHANGED <<pep479, netVars, bitmapVars, extVars, downloadVars, serverVars, backupVars>>)
    \/ (Read /\ UNCHANGED <<pep479, netVars, bitmapVars, extVars, downloadVars, serverVars, backupVars>>)
    \/ (Write /\ UNCHANGED <<pep479, netVars, bitmapVars, extVars, downloadVars, serverVars, backupVars>>)
    \/ (Flush /\ UNCHANGED <<pep479, netVars, bitmapVars, extVars, downloadVars, serverVars, backupVars>>)
    \/ (QueryBlockStatus /\ UNCHANGED <<pep479, netVars, bitmapVars, extVars, downloadVars, serverVars, backupVars>>)
    \/ (NextChunk /\ UNCHANGED <<pep479, netVars, bitmapVars, extVars, downloadVars, serverVars, backupVars>>)
    \/ (Close /\ UNCHANGED <<pep479, netVars, bitmapVars, extVars, downloadVars, serverVars, backupVars>>)

SpecNbd == InitNbd /\ [][NextNbd]_vars

\* ---------------------------------------------------------------------------
\* SpecNetworks: one call of auto_enable_nbd on a pool whose networks have
\* any purposes and any VLAN PIFs
\* ---------------------------------------------------------------------------
InitNetworks ==
    /\ pep479 = TRUE
    /\ IdleBitmap
    /\ IdleExtents
    /\ IdleDownload
    /\ IdleBackup
    /\ IdleNbd
    /\ net_pc = "scan"
    /\ net_args \in [use_tls : BOOLEAN, skip_vlans : BOOLEAN]
    /\ net_i = 1
    /\ purpose \in [networks -> SUBSET NbdPurposes]
    /\ vlan_master \in [networks -> BOOLEAN]
    /\ purpose_at_call = purpose

NextNetworks ==
    \/ (AutoEnableScan /\ UNCHANGED <<pep479, bitmapVars, extVars, downloadVars, serverVars, backupVars, nbdVars>>)
    \/ (AutoEnableAdd /\ UNCHANGED <<pep479, bitmapVars, extVars, downloadVars, serverVars, backupVars, nbdVars>>)
    \/ (AutoEnableWait /\ UNCHANGED <<pep479, bitmapVars, extVars, downloadVars, serverVars, backupVars, nbdVars>>)

SpecNetworks == InitNetworks /\ [][NextNetworks]_vars

\* ---- properties of SpecBackup ----

\* the snapshots of live VDI v that have a local backup data file
SnapshotsWithBackup(v) ==
    {s \in {get_snapshots(v, prior)[j] : j \in 1..Len(get_snapshots(v, prior))} :
        _get_local_backup_of_snapshot(v, prior, s)}

\* C2: _vdi_backup performs an incremental backup iff CBT is enabled on the
\* snapshot VDI and some snapshot of the same live VDI has a local data file;
\* the base is then a snapshot with the greatest snapshot_time among those
\* with a local data file.  Otherwise it performs a full backup.
C2_IncrementalIffBase ==
    /\ bk_pc = "vdi_dir" =>
        /\ (latest_backup # None) <=>
              (snap_cbt[vdi_i] /\ SnapshotsWithBackup(vdi_i) # {})
        /\ latest_backup # None =>
              /\ latest_backup \in SnapshotsWithBackup(vdi_i)
              /\ \A s \in SnapshotsWithBackup(vdi_i) :
                    _snapshot_timestamp(prior, s)
                        <= _snapshot_timestamp(prior, latest_backup)
    /\ bk_pc = "download" =>
        /\ dl_op \in {"full", "incremental"}
        /\ (dl_op = "incremental") <=> (latest_backup # None)

C2_Witness ==
    /\ bk_pc = "download"
    /\ dl_op = "incremental"
    /\ Len(prior) = 2
    /\ prior[1].data /\ prior[2].data
    /\ prior[1].time < prior[2].time
    /\ latest_backup = 2

\* the steps of the backup of one VDI
VdiSteps == {"vdi_lookup", "vdi_dir", "download", "checksum"}

\* C7: when a step after the creation of the timestamped directory raises,
\* backup() exits with the directory removed and the same exception
\* propagated, and no later VDI has been backed up.
C7_FailureRemovesDirAndPropagates ==
    (bk_pc = "raised" /\ failed_step # "start") =>
        /\ ~bdir.exists
        /\ bdir.files = {}
        /\ bk_raised = bk_exc
        /\ bk_raised # "none"
        /\ failed_step \in VdiSteps =>
              /\ vdi_status[vdi_i] \in {"started", "differ"}
              /\ \A w \in Vdis : w > vdi_i => vdi_status[w] = "none"

C7_Witness ==
    /\ bk_pc = "raised"
    /\ failed_step = "download"
    /\ vdi_i = 1
    /\ bk_raised = "OSError"
    /\ vm_snapshot = "exists"

VdiDestroyed(v) == snap_vdi[v] \in {"data_destroyed", "destroyed"}

VdiCalls == {"VDI.data_destroy", "VDI.destroy"}

C10_SnapshotDestroyedOnExit ==
    (bk_pc \in {"returned", "raised"} /\ vm_snapshot # "none") =>
        vm_snapshot = "destroyed"

\* ---- properties of SpecDownload ----

\* C1: incremental_vdi_backup completes and leaves an output file as long as
\* the base file in which every 64 KiB block marked 1 in the bitmap is the
\* snapshot's block read over NBD and every block marked 0 is the base
\* file's block.
C1_IncrementalResult ==
    (dl_op = "incremental" /\ Exited) =>
        /\ dl_pc = "returned"
        /\ out_file.exists
        /\ FileLen(out_file.segs) = FileLen(base_file.segs)
        /\ \A k \in 0..((export_size \div BLOCK_SIZE) - 1) :
              Slice(out_file.segs, k * BLOCK_SIZE, (k + 1) * BLOCK_SIZE) =
                  IF BitAt(dl_bitmap, k)
                  THEN <<Seg("export", k * BLOCK_SIZE, BLOCK_SIZE)>>
                  ELSE Slice(base_file.segs, k * BLOCK_SIZE, (k + 1) * BLOCK_SIZE)

\* C6: full_vdi_backup into a fresh file completes and leaves a file of
\* exactly export_size bytes whose byte at every position is the export's
\* byte at that position.
C6_FullBackupResult ==
    (dl_op = "full" /\ Exited) =>
        /\ dl_pc = "returned"
        /\ out_file.exists
        /\ out_file.segs = Normalize(<<Seg("export", 0, export_size)>>)

\* the SR of live VDI v allows the three CBT operations
SrAllowsCbt(v) ==
    /\ "vdi_enable_cbt" \in sr_allowed_operations[v]
    /\ "vdi_list_changed_blocks" \in sr_allowed_operations[v]
    /\ "vdi_data_destroy" \in sr_allowed_operations[v]

ClientOpened == nbd_client._transmission_phase

\* C34: _copy(src, dst) of the readable base file to the writable output
\* file returns, however the attempt to clone with cp ends, and leaves the
\* output file with the bytes of the base file
C34_CopyFallsBack ==
    (dl_op = "incremental" /\ dl_pc # "start") =>
        /\ out_file.exists
        /\ dl_pc = "copied" => out_file.segs = base_file.segs

\* C35: incremental_vdi_backup leaves the base file as it was, whatever the
\* outcome and at every step, and nothing is read from the export or written
\* to the output file before the copy of the base file is there
C35_BaseFileUntouched ==
    dl_op = "incremental" =>
        /\ base_file = [exists |-> TRUE,
                        segs |-> Normalize(<<Seg("base", 0, export_size)>>)]
        /\ (nbd_client.sent # <<>> \/ output_mode # "closed" \/ ClientOpened) =>
              /\ out_file.exists
              /\ dl_pc \notin {"start", "copied"}
        /\ dl_pc = "start" => ~out_file.exists

\* an incremental backup has copied a base file of several blocks and has
\* then returned or raised
C35_Witness ==
    /\ dl_op = "incremental"
    /\ Exited
    /\ out_file.exists
    /\ FileLen(base_file.segs) >= 2 * BLOCK_SIZE
    /\ OneBits(dl_bitmap) # {}

\* C32: once the NBD client of a download has been opened, the method returns
\* or raises only after close() was called on the client and has sent one
\* disconnect request, the last thing sent, whether the transfer completed
\* or raised; the client is open as long as the with statement runs
C32_TeardownOnEveryExit ==
    /\ (Exited /\ ClientOpened) =>
          /\ nbd_client._closed
          /\ nbd_client.sent # <<>>
          /\ nbd_client.sent[Len(nbd_client.sent)][1] = NBD_CMD_DISC
          /\ Cardinality({i \in 1..Len(nbd_client.sent) :
                              nbd_client.sent[i][1] = NBD_CMD_DISC}) = 1
    /\ (dl_pc \in {"client", "loop", "exit_client"}) =>
          /\ ClientOpened
          /\ ~nbd_client._closed

\* a download that read a block, then met the end of the stream, has raised
C32_Witness ==
    /\ dl_pc = "raised"
    /\ dl_exc = "NBDEOFError"
    /\ nbd_client._closed
    /\ Len(nbd_client.sent) = 3
    /\ out_file.segs # <<>>

\* ---- properties of SpecBitmap ----

\* 64 KiB block indices touched by some extent of a sequence; the range runs
\* past the end of the bitmap so that an overrun is seen
CoveredBlocks(exts, b) ==
    {k \in 0..(BitLen(b) + 1) :
        \E j \in 1..Len(exts) :
            /\ exts[j][1] < (k + 1) * 65536
            /\ k * 65536 < exts[j][1] + exts[j][2]}

\* C3: the blocks covered by the extents of get_extents(False) are exactly
\* the 1-bits of the bitmap (MSB first), also when the last bit is set and
\* when no bit is set.
C3_ExtentsCoverOneBits ==
    bm_pc = "plain" =>
        /\ extents.exc = "none"
        /\ CoveredBlocks(extents.val, bitmap) = OneBits(bitmap)

C3_Witness ==
    /\ bm_pc = "plain"
    /\ BitLen(bitmap) = 16
    /\ BitAt(bitmap, 15)
    /\ Len(extents.val) >= 2

\* C4: every extent of get_extents(False) has offset and length multiples of
\* 65536, length > 0, and consecutive extents a, b have
\* a.offset + a.length < b.offset.
C4_ExtentsAlignedIncreasing ==
    bm_pc = "plain" =>
        /\ \A j \in 1..Len(extents.val) :
              /\ extents.val[j][1] % 65536 = 0
              /\ extents.val[j][2] % 65536 = 0
              /\ extents.val[j][2] > 0
        /\ \A j \in 1..(Len(extents.val) - 1) :
              extents.val[j][1] + extents.val[j][2] < extents.val[j + 1][1]

C4_Witness ==
    /\ bm_pc = "plain"
    /\ Len(extents.val) >= 3
    /\ \E j \in 1..Len(extents.val) : extents.val[j][2] > 65536

NoTouching(exts) ==
    \A j \in 1..(Len(exts) - 1) : exts[j][1] + exts[j][2] # exts[j + 1][1]

\* C5: for every bitmap, get_extents(True) yields the same sequence as
\* get_extents(False), with no two consecutive touching extents.
C5_MergedIdentical ==
    bm_pc = "merged" =>
        /\ extents = get_extents(bitmap, <<FALSE>>)
        /\ NoTouching(extents.val)

\* the sum of the lengths of a sequence of extents
RECURSIVE SumLengths(_)
SumLengths(exts) == IF exts = <<>> THEN 0 ELSE Head(exts)[2] + SumLengths(Tail(exts))

\* C27: for every bitmap, get_statistics() reports size = (number of bits) *
\* 65536 and changed_blocks_size = (number of 1-bits) * 65536, which is the
\* sum of the lengths of get_extents(False) and is at most size.
C27_Statistics ==
    bm_pc = "stats" =>
        /\ statistics.size = 8 * Len(bitmap) * 65536
        /\ statistics.changed_blocks_size = Cardinality(OneBits(bitmap)) * 65536
        /\ statistics.changed_blocks_size = SumLengths(get_extents(bitmap, <<FALSE>>).val)
        /\ statistics.changed_blocks_size <= statistics.size

\* the spec's example: three set bits, in two runs, one at the end of the bitmap
C27_Witness ==
    /\ bm_pc = "stats"
    /\ Cardinality(OneBits(bitmap)) = 3
    /\ statistics.changed_blocks_size = 196608
    /\ statistics.size > statistics.changed_blocks_size
    /\ Len(get_extents(bitmap, <<FALSE>>).val) = 2
    /\ BitAt(bitmap, BitLen(bitmap) - 1)

\* ---- properties of SpecExtents ----

\* a.offset + a.length == b.offset for the consecutive extents j, j + 1
Touching(exts, j) == exts[j][1] + exts[j][2] = exts[j + 1][1]

\* the indices at which a maximal chain of touching extents begins
ChainStarts(exts) == {i \in 1..Len(exts) : i = 1 \/ ~Touching(exts, i - 1)}

\* the index at which the maximal chain beginning at i ends
ChainEnd(exts, i) ==
    CHOOSE j \in i..Len(exts) :
        /\ j = Len(exts) \/ ~Touching(exts, j)
        /\ \A k \in i..(j - 1) : Touching(exts, k)

\* the extents spanning the maximal chains
ChainSpans(exts) ==
    {<<exts[i][1],
       exts[ChainEnd(exts, i)][1] + exts[ChainEnd(exts, i)][2] - exts[i][1]>> :
        i \in ChainStarts(exts)}

\* out is the increasing sequence of the spans of the maximal chains of exts
IsChainMerge(out, exts) ==
    /\ Len(out) = Cardinality(ChainStarts(exts))
    /\ {out[j] : j \in 1..Len(out)} = ChainSpans(exts)
    /\ \A j \in 1..(Len(out) - 1) : out[j][1] < out[j + 1][1]

\* C26: on every increasingly ordered, non-overlapping sequence of extents,
\* the empty one included, both copies of merge_adjacent_extents raise
\* nothing and yield the input with every maximal chain of touching extents
\* replaced by the extent spanning it.
C26_MergeYieldsChains ==
    ext_pc \in {"merged_cbt", "merged"} =>
        /\ merged.exc = "none"
        /\ IsChainMerge(merged.val, ext_args.extents)

\* the reads that tile the extents in sub-blocks of at most bs bytes:
\* cur = off, off + bs, ... below off + len, min(bs, off + len - cur) bytes each
RECURSIVE TilingReads(_, _)
TilingReads(exts, bs) ==
    IF exts = <<>>
    THEN <<>>
    ELSE LET off == Head(exts)[1]
             end == Head(exts)[1] + Head(exts)[2]
             n == (end - off + bs - 1) \div bs
         IN  [i \in 1..n |-> <<off + (i - 1) * bs, Min(bs, end - (off + (i - 1) * bs))>>]
             \o TilingReads(Tail(exts), bs)

\* a content with the export's bytes put at their own offsets for every read
RECURSIVE PutAtOwnOffset(_, _)
PutAtOwnOffset(segs, rds) ==
    IF rds = <<>>
    THEN segs
    ELSE PutAtOwnOffset(WriteAt(segs, Head(rds)[1],
                                Seg("export", Head(rds)[1], Head(rds)[2])),
                        Tail(rds))

\* C28: write_extents reads every extent (off, len) at cur = off, off + bs,
\* ... below off + len, min(bs, off + len - cur) bytes each, so that the
\* reads tile the extent; in OVERWRITE mode every block is written at file
\* offset cur.
C28_WriteExtentsTiles ==
    (ext_pc = "written" /\ ext_exc # "FileNotFoundError") =>
        /\ ext_exc = "none"
        /\ reads = TilingReads(ext_args.extents, ext_args.block_size)
        /\ ext_args.output_mode = "r+b" =>
              ext_file.segs = PutAtOwnOffset(<<Seg("base", 0, MaxGrid * BLOCK_SIZE)>>, reads)

\* ---- properties of SpecNbdExtents ----

\* the ranges <<offset, length>> of the read requests a client has sent, in
\* the order sent
RECURSIVE ReadRanges(_)
ReadRanges(sent) ==
    IF sent = <<>>
    THEN <<>>
    ELSE IF Len(Head(sent)) = 4 /\ Head(sent)[1] = NBD_CMD_READ
         THEN << <<Head(sent)[3], Head(sent)[4]>> >> \o ReadRanges(Tail(sent))
         ELSE ReadRanges(Tail(sent))

\* C29: _download_nbd_extents reads every extent as consecutive sub-blocks of
\* at most block_size bytes in increasing offset order, the reads covering
\* exactly the extents; in OVERWRITE mode every block lands in the output
\* file at the offset it has on the export and the bytes outside the extents
\* are those the file had.
C29_DownloadExtents ==
    (dl_op = "extents" /\ Exited /\ dl_exc # "FileNotFoundError") =>
        /\ dl_exc = "none"
        /\ ReadRanges(nbd_client.sent) = TilingReads(ext_args.extents, block_size)
        /\ \A j \in 1..Len(ReadRanges(nbd_client.sent)) :
              /\ ReadRanges(nbd_client.sent)[j][2] > 0
              /\ ReadRanges(nbd_client.sent)[j][2] <= block_size
        /\ ext_args.output_mode = "OVERWRITE" =>
              out_file.segs = PutAtOwnOffset(base_file.segs, ext_args.extents)

\* ---- properties of SpecNbd ----
\* the requests among the items a client has sent, in the order sent
IsRequest(item) == Len(item) = 4

Requests(c) == SelectSeq(c.sent, IsRequest)

\* what the last call sent
SentByCall == SubSeq(client.sent, Len(last_call.before.sent) + 1, Len(client.sent))

\* C11: the handles of the requests one client has sent (READ, WRITE, FLUSH,
\* BLOCK_STATUS, DISC), in the order sent, are strictly increasing, whatever
\* the replies were
C11_HandlesStrictlyIncreasing ==
    \A i, j \in 1..Len(Requests(client)) :
        i < j => Requests(client)[i][2] < Requests(client)[j][2]

\* two requests are sent, the reply to the second one carries an error
C11_Witness ==
    /\ Len(Requests(client)) = 2
    /\ last_call.exc = "NBDTransmissionError"
    /\ Requests(client)[1][2] = 1
    /\ Requests(client)[2][2] = 2

\* the last call read, from a socket with no unread bytes, a simple reply
\* with the right magic and a handle other than that of its request
SimpleReplyOfOtherRequest ==
    /\ last_call.op \in {"read", "write", "flush"}
    /\ last_call.unread = <<>>
    /\ Len(last_call.resp) >= 3
    /\ last_call.resp[1].val = NBD_SIMPLE_REPLY_MAGIC
    /\ last_call.resp[3].val # client._handle

\* the last call was a next() on the generator of query_block_status that
\* found a whole structured reply chunk with the right magic and a handle
\* other than that of the last request
ChunkOfOtherRequest ==
    /\ last_call.op = "next"
    /\ Len(last_call.unread) >= 5
    /\ last_call.unread[1] = Field(4, NBD_STRUCTURED_REPLY_MAGIC)
    /\ last_call.unread[4].len = 8
    /\ last_call.unread[4].whole
    /\ last_call.unread[4].val # client._handle

\* C12: a simple reply or a structured reply chunk whose handle is not the
\* handle of the request sent last makes the pending operation raise
\* NBDUnexpectedReplyHandleError, and read returns only data of a reply
\* that carries the handle of its own request
C12_ReplyHandleChecked ==
    /\ SimpleReplyOfOtherRequest => last_call.exc = "NBDUnexpectedReplyHandleError"
    /\ ChunkOfOtherRequest => last_call.exc = "NBDUnexpectedReplyHandleError"
    /\ (last_call.op = "read" /\ last_call.exc = "none")
          => last_call.data.handle = client._handle

\* C13: read(offset, length) or write(data, offset) with an offset or a length
\* that is not a multiple of 512 raises the alignment error (ValueError),
\* sends nothing, and leaves the handle counter and the unflushed flag as
\* they were
C13_UnalignedRejected ==
    (/\ last_call.op \in {"read", "write"}
     /\ (last_call.offset % 512 # 0 \/ last_call.length % 512 # 0))
    => /\ last_call.exc = "ValueError"
       /\ client.sent = last_call.before.sent
       /\ client._handle = last_call.before._handle
       /\ client._flushed = last_call.before._flushed

\* a write at an offset that is not aligned, on a client with nothing to flush
C13_Witness ==
    /\ last_call.op = "write"
    /\ last_call.offset % 512 # 0
    /\ last_call.length % 512 = 0
    /\ last_call.before._flushed
    /\ ~last_call.before._closed
    /\ last_call.exc = "ValueError"

\* C14: a read(offset, length) that returns returns exactly length bytes,
\* however the payload is split over the recv_into calls; if the peer closes
\* the connection before the whole payload has arrived, read raises
\* NBDEOFError
C14_ReadReturnsLength ==
    /\ (last_call.op = "read" /\ last_call.exc = "none")
          => /\ last_call.data.length = last_call.length
             /\ StreamLen(last_call.data.data) = last_call.length
    /\ (/\ last_call.op = "read"
        /\ last_call.net.closed
        /\ last_call.unread = <<>>
        /\ Len(last_call.resp) >= 3
        /\ last_call.resp[1].val = NBD_SIMPLE_REPLY_MAGIC
        /\ last_call.resp[3].val = client._handle
        /\ StreamLen(last_call.resp) < 16 + last_call.length)
          => last_call.exc = "NBDEOFError"

\* a read of 1024 bytes returns, recv_into having returned at most 200 bytes
\* at a time
C14_Witness ==
    /\ last_call.op = "read"
    /\ last_call.exc = "none"
    /\ last_call.length = 1024
    /\ last_call.net.frag = 200
    /\ StreamLen(last_call.data.data) = 1024

\* C15: no read, write, flush or query_block_status sends its request while
\* a request of an earlier call, which has returned, still awaits the end of
\* its reply (for a block status request, its final chunk)
C15_OneOutstandingRequest ==
    (/\ last_call.op \in {"read", "write", "flush", "query_block_status"}
     /\ Len(client.sent) > Len(last_call.before.sent))
    => last_call.pending = {}

\* the greeting differs from NBDMAGIC, IHAVEOPT, handshake flags with
\* NBD_FLAG_HAS_FLAGS in a part that the server did send
WrongGreeting(g) ==
    LET Is(k, text) == g[k].whole /\ g[k].len = 8 /\ g[k].val = text
    IN  /\ Len(g) >= 1
        /\ Is(1, "NBDMAGIC") => Len(g) >= 2
        /\ (Is(1, "NBDMAGIC") /\ Is(2, "IHAVEOPT")) =>
              /\ Len(g) >= 3
              /\ ~(g[3].whole /\ g[3].len = 2 /\ HasBit(g[3].val, NBD_FLAG_HAS_FLAGS))

\* C16: the constructor with new_style_handshake raises NBDProtocolError on a
\* greeting that is not NBDMAGIC, IHAVEOPT and flags with NBD_FLAG_HAS_FLAGS;
\* it has sent nothing, the client is not in the transmission phase and no
\* client object exists on which a call could be made
C16_WrongGreetingRejected ==
    (/\ last_call.op = "__init__"
     /\ ctor_args.new_style_handshake
     /\ WrongGreeting(last_call.unread))
    => /\ last_call.exc = "NBDProtocolError"
       /\ client.sent = <<>>
       /\ ~client._transmission_phase
       /\ nbd_pc = "failed"

\* the server greets with NBDMAGIC followed by NOIHAVEO
C16_Witness ==
    /\ last_call.op = "__init__"
    /\ ctor_args.new_style_handshake
    /\ last_call.unread = <<Field(8, "NBDMAGIC"), Field(8, "NOIHAVEO"), Field(2, 1)>>
    /\ last_call.exc = "NBDProtocolError"
    /\ nbd_pc = "failed"

\* the reply NBD_REP_ACK without data to NBD_OPT_STARTTLS
StartTlsAck == OptionReply(OPTION_REPLY_MAGIC, NBD_OPT_STARTTLS, U32(0, NBD_REP_ACK), 0)

\* C17: with use_tls in a newstyle handshake the socket is upgraded only right
\* after NBD_OPT_STARTTLS was sent and answered by NBD_REP_ACK without data;
\* NBD_OPT_EXPORT_NAME and every request are sent after the upgrade; on any
\* other reply the socket is not upgraded, no export is requested and the
\* constructor has raised
C17_TlsBeforeExport ==
    (ctor_args.use_tls /\ ctor_args.new_style_handshake) =>
        /\ client.tls_at # None =>
              /\ client.tls_at >= 1
              /\ client.sent[client.tls_at] = <<"option", NBD_OPT_STARTTLS>>
        /\ (last_call.op = "__init__" /\ client.tls_at # None) =>
              last_call.resp = StartTlsAck
        /\ \A i \in 1..Len(client.sent) :
              (IsRequest(client.sent[i])
               \/ client.sent[i] = <<"option", NBD_OPT_EXPORT_NAME>>) =>
                  (client.tls_at # None /\ i > client.tls_at)
        /\ (/\ last_call.op = "__init__"
            /\ <<"option", NBD_OPT_STARTTLS>> \in {client.sent[i] : i \in 1..Len(client.sent)}
            /\ last_call.resp # StartTlsAck) =>
              /\ client.tls_at = None
              /\ nbd_pc = "failed"
              /\ last_call.exc # "none"

\* a client constructed with use_tls has upgraded the socket, requested the
\* export and sent a request
C17_Witness ==
    /\ ctor_args.use_tls /\ ctor_args.new_style_handshake
    /\ client.tls_at # None
    /\ client._transmission_phase
    /\ <<"option", NBD_OPT_EXPORT_NAME>> \in {client.sent[i] : i \in 1..Len(client.sent)}
    /\ Requests(client) # <<>>

\* C18: a client constructed with use_tls does the newstyle handshake only, and
\* sends a request only on the upgraded socket
C18_NoCleartextWithTls ==
    ctor_args.use_tls =>
        /\ client.style # "oldstyle"
        /\ \A i \in 1..Len(client.sent) :
              IsRequest(client.sent[i]) => (client.tls_at # None /\ i > client.tls_at)

\* the client has done the oldstyle handshake, or the newstyle handshake and
\* connect(exportname)
InTransmission(c) == c._transmission_phase \/ c.style = "oldstyle"

\* C19: a close() of an open client that returns has sent NBD_CMD_FLUSH first
\* if there were unflushed writes the server can be asked to flush, then
\* NBD_CMD_DISC if the client was in the transmission phase, by whichever
\* handshake, and NBD_OPT_ABORT otherwise; nothing else
C19_CloseSequence ==
    (/\ last_call.op \in {"close", "__exit__"}
     /\ ~last_call.before._closed
     /\ last_call.exc = "none")
    => LET before == last_call.before
           flushes == ~before._flushed /\ _need_flush(before)
           n == Len(SentByCall)
       IN  /\ n = IF flushes THEN 2 ELSE 1
           /\ flushes => /\ IsRequest(SentByCall[1])
                         /\ SentByCall[1][1] = NBD_CMD_FLUSH
           /\ IF InTransmission(before)
              THEN IsRequest(SentByCall[n]) /\ SentByCall[n][1] = NBD_CMD_DISC
              ELSE SentByCall[n] = <<"option", NBD_OPT_ABORT>>

\* C20: once a close() has returned, a further close() or __exit__ sends
\* nothing and raises nothing
C20_CloseIdempotent ==
    (/\ last_call.op \in {"close", "__exit__"}
     /\ last_call.before._closed)
    => /\ last_call.exc = "none"
       /\ SentByCall = <<>>

\* C21: after close() a read, write, flush or query_block_status raises and
\* sends nothing
C21_ClosedClientRejects ==
    (/\ last_call.op \in {"read", "write", "flush", "query_block_status"}
     /\ last_call.before._closed)
    => /\ last_call.exc # "none"
       /\ SentByCall = <<>>

\* the client c has sent a write request and no flush request after it
WriteSinceFlush(c) ==
    \E i \in 1..Len(Requests(c)) :
        /\ Requests(c)[i][1] = NBD_CMD_WRITE
        /\ \A j \in (i + 1)..Len(Requests(c)) : Requests(c)[j][1] # NBD_CMD_FLUSH

\* C22: flush() on an open client sends nothing unless a write was issued
\* since the last flush, or since the handshake if there was none
C22_FlushOnlyAfterWrite ==
    (/\ last_call.op = "flush"
     /\ ~last_call.before._closed
     /\ ~WriteSinceFlush(last_call.before))
    => SentByCall = <<>>

\* C23: in the transmission phase, flush() follows the NBD_FLAG_SEND_FLUSH bit
\* of the transmission flags the server announced for the export: with the
\* bit clear it sends nothing, returns and leaves the client clean; with the
\* bit set and unflushed writes it sends NBD_CMD_FLUSH and nothing else, and
\* the client is clean afterwards exactly if flush returned
C23_FlushFollowsTransmissionFlags ==
    (/\ last_call.op = "flush"
     /\ ~last_call.before._closed
     /\ last_call.before.export_flags # None)
    => LET before == last_call.before
       IN  IF ~HasBit(before.export_flags, NBD_FLAG_SEND_FLUSH)
           THEN /\ SentByCall = <<>>
                /\ last_call.exc = "none"
                /\ client._flushed
           ELSE ~before._flushed =>
                   /\ Len(SentByCall) = 1
                   /\ IsRequest(SentByCall[1])
                   /\ SentByCall[1][1] = NBD_CMD_FLUSH
                   /\ client._flushed <=> last_call.exc = "none"

\* the unread bytes begin with a block status chunk that carries the handle
StartsWithChunk(fields, handle) ==
    /\ Len(fields) >= 6
    /\ \E flags \in {0, NBD_REPLY_FLAG_DONE} :
          SubSeq(fields, 1, 6) = StructuredChunk(flags, handle, 12)

\* C24: on a client that has negotiated structured replies and requested the
\* export, next() on the
\* generator of query_block_status returns the next chunk the server sent
\* for the request and consumes exactly that chunk; once it has returned a
\* chunk with NBD_REPLY_FLAG_DONE, the next next() raises StopIteration and
\* reads nothing
C24_ChunksUntilDone ==
    (/\ last_call.op = "next"
     /\ last_call.before._structured_reply
     /\ last_call.before._transmission_phase
     /\ last_call.gen.handle = last_call.before._handle)
    => LET g == last_call.gen
           unread == last_call.unread
       IN  IF g.state = "suspended" /\ HasBit(g.reply.flags, NBD_REPLY_FLAG_DONE)
           THEN /\ last_call.exc = "StopIteration"
                /\ wire_in = unread
           ELSE StartsWithChunk(unread, g.handle) =>
                   /\ last_call.exc = "none"
                   /\ last_call.chunk.flags = unread[2].val
                   /\ last_call.chunk.handle = g.handle
                   /\ wire_in = SubSeq(unread, 7, Len(unread))

\* C25: a read or write whose request the server answers with a simple reply
\* that carries an error, and that the NBD protocol sends without payload,
\* raises NBDTransmissionError with the error of the reply and has consumed
\* the reply and nothing else, so that the next reply is read from its start
C25_ErrorReplyKeepsFraming ==
    (/\ last_call.op \in {"read", "write"}
     /\ Len(client.sent) > Len(last_call.before.sent)
     /\ last_call.unread = <<>>
     /\ \E errno \in 1..5 :
           last_call.resp = SimpleReply(NBD_SIMPLE_REPLY_MAGIC, errno, client._handle, 0))
    => /\ last_call.exc = "NBDTransmissionError"
       /\ last_call.val = last_call.resp[2].val
       /\ wire_in = <<>>

\* the error replies the server may give to NBD_OPT_STRUCTURED_REPLY: without
\* and with an error message
StructuredReplyRejections ==
    {OptionReply(OPTION_REPLY_MAGIC, NBD_OPT_STRUCTURED_REPLY, U32(32768, 1), n) :
        n \in {0, 16}}

\* C30: when the server rejects NBD_OPT_STRUCTURED_REPLY with an error reply,
\* with or without an error message, negotiate_structured_reply raises
\* NBDOptionError and _structured_reply stays False; a connect(exportname)
\* that follows on the same client and returns has read the export's size
\* and flags the server sent for it, and nothing is left unread
C30_DowngradeAfterRejection ==
    /\ []((/\ last_call.op = "negotiate_structured_reply"
           /\ last_call.unread = <<>>
           /\ last_call.resp \in StructuredReplyRejections)
          => /\ last_call.exc = "NBDOptionError"
             /\ ~client._structured_reply)
    /\ [][(/\ last_call.op = "negotiate_structured_reply"
           /\ last_call.unread = <<>>
           /\ last_call.resp \in StructuredReplyRejections
           /\ last_call'.op = "connect"
           /\ last_call'.exc = "none")
          => /\ ~client'._structured_reply
             /\ Len(last_call'.resp) = 3
             /\ client'._size = last_call'.resp[1].val
             /\ client'.export_flags = last_call'.resp[2].val
             /\ wire_in' = <<>>]_vars

\* well-formed replies to another option than the one sent: an ACK, an error
RepliesToAnother(option) ==
    {OptionReply(OPTION_REPLY_MAGIC, option + 1, t, 0) :
        t \in {U32(0, NBD_REP_ACK), U32(32768, 1)}}

\* NBD_OPT_STARTTLS is among what the client has sent
SentStartTls(c) == \E i \in 1..Len(c.sent) : c.sent[i] = <<"option", NBD_OPT_STARTTLS>>

\* C31: an option reply whose option id is not the one of the option sent
\* last raises NBDUnexpectedOptionResponseError whatever its reply type: it
\* is neither taken for an ACK (no TLS upgrade, _structured_reply left as
\* it was) nor reported as NBDOptionError
C31_MismatchedOptionReply ==
    /\ (/\ last_call.op = "negotiate_structured_reply"
        /\ last_call.unread = <<>>
        /\ last_call.resp \in RepliesToAnother(NBD_OPT_STRUCTURED_REPLY))
       => /\ last_call.exc = "NBDUnexpectedOptionResponseError"
          /\ client._structured_reply = last_call.before._structured_reply
    /\ (/\ last_call.op = "__init__"
        /\ SentStartTls(client)
        /\ last_call.resp \in RepliesToAnother(NBD_OPT_STARTTLS))
       => /\ last_call.exc = "NBDUnexpectedOptionResponseError"
          /\ client.tls_at = None

\* an error reply to another option was received for NBD_OPT_STRUCTURED_REPLY
C31_Witness ==
    /\ last_call.op = "negotiate_structured_reply"
    /\ last_call.unread = <<>>
    /\ last_call.resp =
          OptionReply(OPTION_REPLY_MAGIC, NBD_OPT_STRUCTURED_REPLY + 1, U32(32768, 1), 0)
    /\ last_call.exc = "NBDUnexpectedOptionResponseError"

\* the steps of _vdi_backup after the choice of latest_backup
AfterLookup == {"vdi_dir", "download", "checksum"}

VmDirNow == [u \in Timestamps |-> IF u = timestamp THEN bdir ELSE vm_dir[u]]

\* C37: backup() leaves every directory that was under the VM's directory
\* when it was called as it found it: when it has failed, the directory it
\* removed is the one it created itself, and when the new timestamp is the
\* name of an existing directory it raises without creating or removing one
C37_EarlierBackupsKept ==
    /\ \A u \in Timestamps : vm_dir[u].exists => VmDirNow[u] = vm_dir[u]
    /\ (bk_pc = "raised" /\ timestamp # None)
       => /\ ~vm_dir[timestamp].exists
          /\ ~bdir.exists
    /\ bk_raised = "FileExistsError"
       => /\ timestamp = None
          /\ ~bdir.exists
          /\ failed_step = "start"

\* the timestamp was the name of the directory of a completed backup
C37_Witness ==
    /\ bk_pc = "raised"
    /\ bk_raised = "FileExistsError"
    /\ \E u \in Timestamps : vm_dir[u] = CompletedBackup
    /\ \E u \in Timestamps : ~vm_dir[u].exists

\* the option a meta context method is to send
MetaContextOption(op) ==
    IF op = "set_meta_contexts" THEN NBD_OPT_SET_META_CONTEXT
    ELSE NBD_OPT_LIST_META_CONTEXT

\* C38: a call of set_meta_contexts or list_meta_contexts that returns has
\* sent exactly one option, NBD_OPT_SET_META_CONTEXT or
\* NBD_OPT_LIST_META_CONTEXT, and list_meta_contexts returns the contexts
\* (a value other than None)
C38_MetaContextOptionSent ==
    (/\ last_call.op \in {"set_meta_contexts", "list_meta_contexts"}
     /\ last_call.exc = "none")
    => /\ client.sent = Append(last_call.before.sent,
                               <<"option", MetaContextOption(last_call.op)>>)
       /\ last_call.op = "list_meta_contexts" => last_call.val # None

\* ---- properties of SpecNetworks ----

\* some network had the requested purpose when auto_enable_nbd was called
AlreadyEnabled ==
    \E n \in networks : nbd_purpose(net_args.use_tls) \in purpose_at_call[n]

\* C39: when auto_enable_nbd has returned, if some network had the requested
\* purpose at the call then no network's purposes have changed; otherwise
\* every network that was not skipped as a VLAN network has the requested
\* purpose
C39_NothingChangedIfEnabled ==
    net_pc = "returned"
    => IF AlreadyEnabled
       THEN purpose = purpose_at_call
       ELSE \A n \in networks :
               ~(net_args.skip_vlans /\ vlan_master[n])
               => nbd_purpose(net_args.use_tls) \in purpose[n]

\* C40: for an error chunk with the offset, as the server sends it for a
\* block status request, the reply type is the client's
\* NBD_REPLY_TYPE_ERROR_OFFSET, the client's NBD_REPLY_TYPE_ERROR and
\* NBD_REPLY_TYPE_ERROR_OFFSET are the error bit plus 1 and plus 2, and
\* _handle_structured_reply_error on the chunk's payload sets the offset
C40_ErrorOffsetParsed ==
    (/\ last_call.op = "query_block_status"
     /\ last_call.resp = ErrorOffsetChunk(NBD_REPLY_FLAG_DONE, client._handle))
    => /\ NBD_REPLY_TYPE_ERROR = NBD_REPLY_TYPE_ERROR_BIT + 1
       /\ NBD_REPLY_TYPE_ERROR_OFFSET = NBD_REPLY_TYPE_ERROR_BIT + 2
       /\ NBD_REPLY_TYPE_ERROR_OFFSET < Pow2(16)
       /\ last_call.resp[3].val = NBD_REPLY_TYPE_ERROR_OFFSET
       /\ _handle_structured_reply_error(
              SubSeq(last_call.resp, 6, 8), last_call.resp[3].val,
              last_call.resp[5].val, Net(65536, FALSE)).offset

====
